---- MODULE Spec2Model ----
(***************************************************************************)
(* ClientSequenceNumberManager (the ClientTracker of the specification):   *)
(* a Map from clientId to heap node next to a binary min-heap of           *)
(* IClientSequenceNumber values ordered by referenceSequenceNumber.        *)
(*                                                                         *)
(* Objects are modelled with their identity: a heap node is a node id into *)
(* `nodes`, an IClientSequenceNumber object a value id into `values`, a    *)
(* scopes array an array reference into `arrays`, a serverMetadata object  *)
(* a reference into `objects`.  Identities are opaque: a new node, value   *)
(* or array takes the number of its client when no live object has it,     *)
(* else the smallest unused number above the client ids, and after every   *)
(* call the objects nothing refers to any more are dropped.                *)
(* The Map is a function: the order of its entries, which only the order   *)
(* of cloneValues()'s result shows, is not kept, and cloneValues() yields  *)
(* the entries in any order.                                               *)
(*                                                                         *)
(* The checkpoint manager of createDeliCheckpointManagerFromCollection:    *)
(* each call of writeCheckpoint or deleteCheckpoint makes its call of the  *)
(* checkpoint service and returns that call's promise.  The service is a   *)
(* store of slots that completes or fails each call at a later step, after *)
(* which the promise the manager returned settles the same way.            *)
(*                                                                         *)
(* The registry of client debuggers (Registry.ts): a Map from containerId  *)
(* to debugger bound to globalThis.fluidClientDebuggers, with the debugger *)
(* objects kept by identity and their disposed flag.                       *)
(***************************************************************************)
EXTENDS Integers, Sequences, FiniteSets, TLC

\* ------------------------------------------------------------- bounds
NumClients == 4
MaxRef == 1

\* The "no clients" result of getMinimumSequenceNumber, also the lowest
\* reference sequence number offered to upsertClient.
NoClients == -1

ClientIds == 1..NumClients
Refs == NoClients..MaxRef

\* serverMetadata is `any`: absent, a falsy value (the empty string stands for
\* "", 0, null, false) or a reference to a caller's object.
MetaUndefined == "undefined"
MetaEmpty == ""
MetaRefs == {"m1", "m2"}
Metas == {MetaUndefined, MetaEmpty} \cup MetaRefs

VARIABLES
    L,              \* Heap.L: the heap array, node ids, L[1] the minimum
    nodes,          \* IHeapNode objects: node id -> [value, position]
    clientNodeMap,  \* Map<string, IHeapNode>: clientId -> node id
    values,         \* IClientSequenceNumber objects: value id -> fields
    arrays,         \* scopes arrays: array reference -> sequence of scopes
    objects,        \* serverMetadata objects: reference -> payload
    snapshot,       \* the array cloneValues() returned last, held by the caller
    held,           \* what the caller did with it: "none", "fresh", "mutated", "reached"
    upserted        \* history: clientIds upserted and not removed since

\* The checkpoint manager (createDeliCheckpointManagerFromCollection) and the
\* checkpoint service it calls.
VARIABLES
    collection,     \* the checkpoint store: slot -> checkpoint held, or Absent
    calls,          \* the calls of writeCheckpoint / deleteCheckpoint, in the order issued
    requests        \* the calls those made of the checkpoint service, in the order made

\* The registry of client debuggers (Registry.ts).
VARIABLES
    fluidClientDebuggers,   \* globalThis.fluidClientDebuggers: Undefined, or containerId -> debugger
    debuggers,              \* the IFluidClientDebugger objects created: debugger -> [containerId, disposed]
    disposeCalls,           \* the debuggers the last call into the registry called dispose() on
    registered              \* history: containerId -> the debugger registered last and not closed since

trackerVars == <<L, nodes, clientNodeMap, values, arrays, objects, snapshot, held, upserted>>
checkpointVars == <<collection, calls, requests>>
registryVars == <<fluidClientDebuggers, debuggers, disposeCalls, registered>>

vars == <<L, nodes, clientNodeMap, values, arrays, objects, snapshot, held, upserted, collection, calls, requests, fluidClientDebuggers, debuggers, disposeCalls, registered>>

\* What the tracker reaches, as one value: the heap's array and nodes, the
\* map, the value objects.
Tracker == [L |-> L, nodes |-> nodes, clientNodeMap |-> clientNodeMap, values |-> values]

\* ------------------------------------------------------------- Map
\* Map<string, IHeapNode>: a function from the keys it holds to their nodes.
EmptyMap == [k \in {} |-> k]
MapHas(m, k) == k \in DOMAIN m
MapGet(m, k) == m[k]
MapSet(m, k, n) == [x \in DOMAIN m \cup {k} |-> IF x = k THEN n ELSE m[x]]
MapDelete(m, k) == [x \in DOMAIN m \ {k} |-> m[x]]
MapSize(m) == Cardinality(DOMAIN m)

\* The identity of a new object for client `hint`, `live` the live ones.
Fresh(live, hint) ==
    IF hint \notin live
    THEN hint
    ELSE CHOOSE n \in (NumClients + 1)..(NumClients + Cardinality(live) + 1) :
             /\ n \notin live
             /\ \A m \in (NumClients + 1)..(n - 1) : m \in live

\* ------------------------------------------------------------- Heap
\* SequenceNumberComparer.compare
compare(a, b) == a.referenceSequenceNumber - b.referenceSequenceNumber

\* The value object of the node at index k of the heap array.
ValueAt(h, k) == h.values[h.nodes[h.L[k]].value]

HeapCount(h) == Len(h.L)

swap(h, k, j) ==
    LET nk == h.L[k]
        nj == h.L[j]
    IN  [h EXCEPT !.L = [h.L EXCEPT ![k] = nj, ![j] = nk],
                  !.nodes = [h.nodes EXCEPT ![nj].position = k, ![nk].position = j]]

\* The parent of the node at k compares greater than it: k has to move up.
isGreaterThanParent(h, k) ==
    k > 1 /\ compare(ValueAt(h, k \div 2), ValueAt(h, k)) > 0

RECURSIVE fixup(_, _)
fixup(h, k) ==
    IF isGreaterThanParent(h, k) THEN fixup(swap(h, k, k \div 2), k \div 2) ELSE h

RECURSIVE fixdown(_, _)
fixdown(h, k) ==
    IF 2 * k > HeapCount(h)
    THEN h
    ELSE LET j0 == 2 * k
             j == IF j0 < HeapCount(h) /\ compare(ValueAt(h, j0), ValueAt(h, j0 + 1)) > 0
                  THEN j0 + 1
                  ELSE j0
         IN  IF compare(ValueAt(h, k), ValueAt(h, j)) <= 0
             THEN h
             ELSE fixdown(swap(h, k, j), j)

\* Heap.update(node): restore the heap order after node.value changed.
HeapUpdate(h, n) ==
    LET k == h.nodes[n].position
    IN  IF isGreaterThanParent(h, k) THEN fixup(h, k) ELSE fixdown(h, k)

\* Heap.add(x): a new node n holding x at the end of the array, moved up.
HeapAdd(h, n, x) ==
    LET h1 == [h EXCEPT !.L = Append(h.L, n),
                        !.nodes = MapSet(h.nodes, n,
                                         [value |-> x, position |-> Len(h.L) + 1])]
    IN  fixup(h1, HeapCount(h1))

\* Heap.remove(node): swap it with the last node, drop the last, then update
\* the node that took its place (unless the removed node was the last one).
HeapRemove(h, n) ==
    LET position == h.nodes[n].position
        h1 == swap(h, position, Len(h.L))
        h2 == [h1 EXCEPT !.L = SubSeq(h1.L, 1, Len(h1.L) - 1)]
    IN  IF position # Len(h2.L) + 1 THEN HeapUpdate(h2, h2.L[position]) ELSE h2

\* Heap.peek(): the node at the top; guarded by HeapCount(h) > 0.
HeapPeek(h) == h.L[1]

\* ------------------------------------------------------------- lookups
Undefined == [undefined |-> TRUE]

\* has() answering whether any client is tracked.
hasAnyClient(t, clientId) == MapSize(t.clientNodeMap) > 0

has(t, clientId) == MapHas(t.clientNodeMap, clientId)

\* get and peek return node.value, an object: here, its fields.
get(t, clientId) ==
    IF ~MapHas(t.clientNodeMap, clientId)
    THEN Undefined
    ELSE t.values[t.nodes[MapGet(t.clientNodeMap, clientId)].value]

\* count() as the length of the heap's array, which has an entry more than nodes.
countOfHeapArray(t) == Len(t.L) + 1

count(t) == MapSize(t.clientNodeMap)

\* peek() returning the value of the last node of the heap's array.
peekOfLastNode(t) == IF HeapCount(t) = 0 THEN Undefined ELSE t.values[t.nodes[t.L[Len(t.L)]].value]

peek(t) == IF HeapCount(t) = 0 THEN Undefined ELSE t.values[t.nodes[HeapPeek(t)].value]

\* A call of peek(): the tracker after it and what it returned.
callPeek(t) == [t |-> t, ret |-> peek(t)]

\* getMinimumSequenceNumber with `count() > 1` for `count() > 0`.
getMinimumSequenceNumberOfSeveral(t) ==
    IF HeapCount(t) > 1
    THEN t.values[t.nodes[HeapPeek(t)].value].referenceSequenceNumber
    ELSE NoClients

getMinimumSequenceNumber(t) ==
    IF HeapCount(t) > 0
    THEN t.values[t.nodes[HeapPeek(t)].value].referenceSequenceNumber
    ELSE NoClients

\* ------------------------------------------------------------- operations
\* `if (serverMetadata !== undefined)` in the place of `if (serverMetadata)`.
TruthyOrFalsy(serverMetadata) == serverMetadata # MetaUndefined

\* `if (serverMetadata)`: undefined and the falsy values do not pass.
Truthy(serverMetadata) == serverMetadata \notin {MetaUndefined, MetaEmpty}

\* upsertTracked without `this.clientSeqNumbers.update(client)`.
upsertTrackedNoHeapUpdate(t, client, clientSequenceNumber, referenceSequenceNumber, timestamp, nack, serverMetadata) ==
    LET v == t.nodes[client].value
    IN  [t |-> [t EXCEPT !.values[v] =
                   [@ EXCEPT !.referenceSequenceNumber = referenceSequenceNumber,
                             !.clientSequenceNumber = clientSequenceNumber,
                             !.lastUpdate = timestamp,
                             !.nack = nack]],
         ret |-> FALSE]

\* upsertTracked returning true, as the insertion does.
upsertTrackedReturnsTrue(t, client, clientSequenceNumber, referenceSequenceNumber, timestamp, nack, serverMetadata) ==
    LET v == t.nodes[client].value
    IN  [t |-> HeapUpdate([t EXCEPT !.values[v] =
                              [@ EXCEPT !.referenceSequenceNumber = referenceSequenceNumber,
                                        !.clientSequenceNumber = clientSequenceNumber,
                                        !.lastUpdate = timestamp,
                                        !.nack = nack]], client),
         ret |-> TRUE]

\* upsertTracked keeping the stored fields when the call's reference sequence
\* number is lower than the stored one.
upsertTrackedIgnoresLower(t, client, clientSequenceNumber, referenceSequenceNumber, timestamp, nack, serverMetadata) ==
    LET v == t.nodes[client].value
    IN  IF referenceSequenceNumber < t.values[v].referenceSequenceNumber
        THEN [t |-> t, ret |-> FALSE]
        ELSE [t |-> HeapUpdate([t EXCEPT !.values[v] =
                                   [@ EXCEPT !.referenceSequenceNumber = referenceSequenceNumber,
                                             !.clientSequenceNumber = clientSequenceNumber,
                                             !.lastUpdate = timestamp,
                                             !.nack = nack]], client),
              ret |-> FALSE]

\* The tracked branch with serverMetadata assigned whatever it is.
upsertTrackedResetsMetadata(t, client, clientSequenceNumber, referenceSequenceNumber, timestamp, nack, serverMetadata) ==
    LET v == t.nodes[client].value
    IN  [t |-> HeapUpdate([t EXCEPT !.values[v] =
                              [@ EXCEPT !.referenceSequenceNumber = referenceSequenceNumber,
                                        !.clientSequenceNumber = clientSequenceNumber,
                                        !.lastUpdate = timestamp,
                                        !.nack = nack,
                                        !.serverMetadata = serverMetadata]], client),
         ret |-> FALSE]

\* The tracked branch writing into the value at the root of the heap.
upsertTrackedWritesRoot(t, client, clientSequenceNumber, referenceSequenceNumber, timestamp, nack, serverMetadata) ==
    LET v == t.nodes[HeapPeek(t)].value
    IN  [t |-> HeapUpdate([t EXCEPT !.values[v] =
                              [@ EXCEPT !.referenceSequenceNumber = referenceSequenceNumber,
                                        !.clientSequenceNumber = clientSequenceNumber,
                                        !.lastUpdate = timestamp,
                                        !.nack = nack]], client),
         ret |-> FALSE]

\* upsertClient, the client is tracked: assign the four fields of client.value,
\* serverMetadata when it is truthy, update the heap, return false.
upsertTracked(t, client, clientSequenceNumber, referenceSequenceNumber, timestamp, nack, serverMetadata) ==
    LET v == t.nodes[client].value
        v1 == [t.values[v] EXCEPT !.referenceSequenceNumber = referenceSequenceNumber,
                                  !.clientSequenceNumber = clientSequenceNumber,
                                  !.lastUpdate = timestamp,
                                  !.nack = nack]
        v2 == IF Truthy(serverMetadata)
              THEN [v1 EXCEPT !.serverMetadata = serverMetadata]
              ELSE v1
    IN  [t |-> HeapUpdate([t EXCEPT !.values[v] = v2], client), ret |-> FALSE]

\* The insertion branch with canEvict true whatever the call carries.
upsertNewAlwaysEvictable(t, clientId, clientSequenceNumber, referenceSequenceNumber, timestamp, canEvict, scopes, nack, serverMetadata) ==
    LET v == Fresh(DOMAIN t.values, clientId)
        newNode == Fresh(DOMAIN t.nodes, clientId)
        t1 == [t EXCEPT !.values =
                  MapSet(t.values, v,
                         [canEvict |-> TRUE,
                          clientId |-> clientId,
                          clientSequenceNumber |-> clientSequenceNumber,
                          lastUpdate |-> timestamp,
                          nack |-> nack,
                          referenceSequenceNumber |-> referenceSequenceNumber,
                          scopes |-> scopes,
                          serverMetadata |-> serverMetadata])]
        h == HeapAdd(t1, newNode, v)
    IN  [t |-> [h EXCEPT !.clientNodeMap = MapSet(h.clientNodeMap, clientId, newNode)],
         ret |-> TRUE]

\* upsertClient, first time the clientId is seen: add a node holding a new
\* value object to the heap, set it in the map, return true.
upsertNew(t, clientId, clientSequenceNumber, referenceSequenceNumber, timestamp, canEvict, scopes, nack, serverMetadata) ==
    LET v == Fresh(DOMAIN t.values, clientId)
        newNode == Fresh(DOMAIN t.nodes, clientId)
        t1 == [t EXCEPT !.values =
                  MapSet(t.values, v,
                         [canEvict |-> canEvict,
                          clientId |-> clientId,
                          clientSequenceNumber |-> clientSequenceNumber,
                          lastUpdate |-> timestamp,
                          nack |-> nack,
                          referenceSequenceNumber |-> referenceSequenceNumber,
                          scopes |-> scopes,
                          serverMetadata |-> serverMetadata])]
        h == HeapAdd(t1, newNode, v)
    IN  [t |-> [h EXCEPT !.clientNodeMap = MapSet(h.clientNodeMap, clientId, newNode)],
         ret |-> TRUE]

\* upsertClient without the lookup of the clientId: every call inserts.
upsertClientNoLookup(t, clientId, clientSequenceNumber, referenceSequenceNumber, timestamp, canEvict, scopes, nack, serverMetadata) ==
    upsertNew(t, clientId, clientSequenceNumber, referenceSequenceNumber,
              timestamp, canEvict, scopes, nack, serverMetadata)

\* upsertClient that gives a tracked client the call's canEvict and scopes.
upsertClientTakesCanEvictAndScopes(t, clientId, clientSequenceNumber, referenceSequenceNumber, timestamp, canEvict, scopes, nack, serverMetadata) ==
    IF MapHas(t.clientNodeMap, clientId)
    THEN LET r == upsertTracked(t, MapGet(t.clientNodeMap, clientId), clientSequenceNumber,
                                referenceSequenceNumber, timestamp, nack, serverMetadata)
             v == r.t.nodes[MapGet(t.clientNodeMap, clientId)].value
         IN  [r EXCEPT !.t.values[v].canEvict = canEvict, !.t.values[v].scopes = scopes]
    ELSE upsertNew(t, clientId, clientSequenceNumber, referenceSequenceNumber,
                   timestamp, canEvict, scopes, nack, serverMetadata)

\* upsertClient: `scopes` is the reference of the array the caller passed (or of
\* the fresh [] of the default parameter).
upsertClient(t, clientId, clientSequenceNumber, referenceSequenceNumber, timestamp, canEvict, scopes, nack, serverMetadata) ==
    IF MapHas(t.clientNodeMap, clientId)
    THEN upsertTracked(t, MapGet(t.clientNodeMap, clientId), clientSequenceNumber,
                       referenceSequenceNumber, timestamp, nack, serverMetadata)
    ELSE upsertNew(t, clientId, clientSequenceNumber, referenceSequenceNumber,
                   timestamp, canEvict, scopes, nack, serverMetadata)

\* removeClient without `this.clientNodeMap.delete(clientId)`.
removeClientKeepsMapEntry(t, clientId) ==
    IF ~MapHas(t.clientNodeMap, clientId)
    THEN [t |-> t, ret |-> FALSE]
    ELSE [t |-> HeapRemove(t, MapGet(t.clientNodeMap, clientId)), ret |-> TRUE]

\* removeClient that deletes the clientId from the map and leaves the node
\* in the heap.
removeClientKeepsHeapNode(t, clientId) ==
    IF ~MapHas(t.clientNodeMap, clientId)
    THEN [t |-> t, ret |-> FALSE]
    ELSE [t |-> [t EXCEPT !.clientNodeMap = MapDelete(t.clientNodeMap, clientId)], ret |-> TRUE]

\* removeClient that keeps a client whose canEvict is false.
removeClientOnlyEvictable(t, clientId) ==
    IF ~MapHas(t.clientNodeMap, clientId) \/ ~t.values[t.nodes[MapGet(t.clientNodeMap, clientId)].value].canEvict
    THEN [t |-> t, ret |-> FALSE]
    ELSE LET h == HeapRemove(t, MapGet(t.clientNodeMap, clientId))
         IN  [t |-> [h EXCEPT !.clientNodeMap = MapDelete(h.clientNodeMap, clientId)],
              ret |-> TRUE]

\* removeClient returning true also when the map has no node for clientId.
removeClientAlwaysTrue(t, clientId) ==
    IF ~MapHas(t.clientNodeMap, clientId)
    THEN [t |-> t, ret |-> TRUE]
    ELSE LET h == HeapRemove(t, MapGet(t.clientNodeMap, clientId))
         IN  [t |-> [h EXCEPT !.clientNodeMap = MapDelete(h.clientNodeMap, clientId)],
              ret |-> TRUE]

\* removeClient: false when the map has no node for clientId; else the node is
\* removed from the heap, the clientId deleted from the map, true returned.
removeClient(t, clientId) ==
    IF ~MapHas(t.clientNodeMap, clientId)
    THEN [t |-> t, ret |-> FALSE]
    ELSE LET details == MapGet(t.clientNodeMap, clientId)
             h == HeapRemove(t, details)
         IN  [t |-> [h EXCEPT !.clientNodeMap = MapDelete(h.clientNodeMap, clientId)],
              ret |-> TRUE]

\* ------------------------------------------------------------- checkpoints
\* The checkpoint store behind ICheckpointService: one slot for each
\* (documentId, tenantId, service name, tier), Absent or holding a checkpoint.
Absent == [absent |-> TRUE]
Documents == {"d1", "d2"}
Tenants == {"t1", "t2"}
Services == {"deli", "scribe"}
Slots == [documentId : Documents, tenantId : Tenants, service : Services, isLocal : BOOLEAN]

\* IDeliState, by its sequence number.
MaxSequenceNumber == 2
Checkpoints == [sequenceNumber : 1..MaxSequenceNumber]

CheckpointReasons == {"batch", "idle"}

\* ICheckpointParams; clear is optional.
Clears == {"true", "false", "undefined"}
CheckpointParams == [reason : CheckpointReasons, deliState : Checkpoints, clear : Clears]

\* ICheckpointService.writeCheckpointToCollection, when the store accepts it:
\* the slot holds the checkpoint, whatever it held.
writeCheckpointToCollection(coll, documentId, tenantId, service, checkpoint, isLocal) ==
    [coll EXCEPT ![[documentId |-> documentId, tenantId |-> tenantId, service |-> service, isLocal |-> isLocal]] = checkpoint]

\* ICheckpointService.removeCheckpointFromCollection, when the store accepts
\* it: the slot is Absent, whatever it held.
removeCheckpointFromCollection(coll, documentId, tenantId, service, isLocal) ==
    [coll EXCEPT ![[documentId |-> documentId, tenantId |-> tenantId, service |-> service, isLocal |-> isLocal]] = Absent]

\* The store after the service call `request` took effect.
Effect(coll, request) ==
    IF request.op = "writeCheckpointToCollection"
    THEN writeCheckpointToCollection(coll, request.documentId, request.tenantId,
                                     request.service, request.checkpoint, request.isLocal)
    ELSE removeCheckpointFromCollection(coll, request.documentId, request.tenantId,
                                        request.service, request.isLocal)

\* The slot a service call is keyed by.
SlotOf(request) ==
    [documentId |-> request.documentId, tenantId |-> request.tenantId,
     service |-> request.service, isLocal |-> request.isLocal]

\* The manager createDeliCheckpointManagerFromCollection(tenantId, documentId,
\* ...) returns, by the two values its closures keep.
Manager == [tenantId |-> "t1", documentId |-> "d1"]

\* What a call of the manager does before it returns: the service calls it
\* makes, in order, and which of their promises (its index; 0 for none) the
\* promise it returns resolves to.

\* writeCheckpoint passing tenantId for documentId and documentId for tenantId.
writeCheckpointSwapsIds(m, checkpoint, isLocal, reason) ==
    [requests |-> <<[op |-> "writeCheckpointToCollection", documentId |-> m.tenantId,
                     tenantId |-> m.documentId, service |-> "deli",
                     checkpoint |-> checkpoint, isLocal |-> isLocal]>>,
     returned |-> 1]

\* writeCheckpoint under the service name "scribe".
writeCheckpointToScribe(m, checkpoint, isLocal, reason) ==
    [requests |-> <<[op |-> "writeCheckpointToCollection", documentId |-> m.documentId,
                     tenantId |-> m.tenantId, service |-> "scribe",
                     checkpoint |-> checkpoint, isLocal |-> isLocal]>>,
     returned |-> 1]

\* writeCheckpoint passing !isLocal.
writeCheckpointOfOtherTier(m, checkpoint, isLocal, reason) ==
    [requests |-> <<[op |-> "writeCheckpointToCollection", documentId |-> m.documentId,
                     tenantId |-> m.tenantId, service |-> "deli",
                     checkpoint |-> checkpoint, isLocal |-> ~isLocal]>>,
     returned |-> 1]

\* deleteCheckpoint with the promise of the service call left unreturned.
deleteCheckpointNotReturned(m, checkpointParams, isLocal) ==
    [requests |-> <<[op |-> "removeCheckpointFromCollection", documentId |-> m.documentId,
                     tenantId |-> m.tenantId, service |-> "deli",
                     checkpoint |-> Absent, isLocal |-> isLocal]>>,
     returned |-> 0]

\* deleteCheckpoint passing !isLocal.
deleteCheckpointOfOtherTier(m, checkpointParams, isLocal) ==
    [requests |-> <<[op |-> "removeCheckpointFromCollection", documentId |-> m.documentId,
                     tenantId |-> m.tenantId, service |-> "deli",
                     checkpoint |-> Absent, isLocal |-> ~isLocal]>>,
     returned |-> 1]

\* deleteCheckpoint writing checkpointParams.deliState in the place of the
\* removal.
deleteCheckpointRewrites(m, checkpointParams, isLocal) ==
    [requests |-> <<[op |-> "writeCheckpointToCollection", documentId |-> m.documentId,
                     tenantId |-> m.tenantId, service |-> "deli",
                     checkpoint |-> checkpointParams.deliState, isLocal |-> isLocal]>>,
     returned |-> 1]

\* deleteCheckpoint calling the service only when checkpointParams.clear is true.
deleteCheckpointWhenClear(m, checkpointParams, isLocal) ==
    IF checkpointParams.clear = "true"
    THEN [requests |-> <<[op |-> "removeCheckpointFromCollection", documentId |-> m.documentId,
                          tenantId |-> m.tenantId, service |-> "deli",
                          checkpoint |-> Absent, isLocal |-> isLocal]>>,
          returned |-> 1]
    ELSE [requests |-> <<>>, returned |-> 0]

\* writeCheckpoint with the promise of the service call left unreturned.
writeCheckpointNotReturned(m, checkpoint, isLocal, reason) ==
    [requests |-> <<[op |-> "writeCheckpointToCollection", documentId |-> m.documentId,
                     tenantId |-> m.tenantId, service |-> "deli",
                     checkpoint |-> checkpoint, isLocal |-> isLocal]>>,
     returned |-> 0]

\* writeCheckpoint that removes the slot before it writes it.
writeCheckpointRemovesFirst(m, checkpoint, isLocal, reason) ==
    [requests |-> <<[op |-> "removeCheckpointFromCollection", documentId |-> m.documentId,
                     tenantId |-> m.tenantId, service |-> "deli",
                     checkpoint |-> Absent, isLocal |-> isLocal],
                    [op |-> "writeCheckpointToCollection", documentId |-> m.documentId,
                     tenantId |-> m.tenantId, service |-> "deli",
                     checkpoint |-> checkpoint, isLocal |-> isLocal]>>,
     returned |-> 2]

\* writeCheckpoint: `return checkpointService.writeCheckpointToCollection(
\* documentId, tenantId, "deli", checkpoint, isLocal)`; reason is not used.
writeCheckpoint(m, checkpoint, isLocal, reason) ==
    [requests |-> <<[op |-> "writeCheckpointToCollection", documentId |-> m.documentId,
                     tenantId |-> m.tenantId, service |-> "deli",
                     checkpoint |-> checkpoint, isLocal |-> isLocal]>>,
     returned |-> 1]

\* deleteCheckpoint: `return checkpointService.removeCheckpointFromCollection(
\* documentId, tenantId, "deli", isLocal)`; checkpointParams is not used.
deleteCheckpoint(m, checkpointParams, isLocal) ==
    [requests |-> <<[op |-> "removeCheckpointFromCollection", documentId |-> m.documentId,
                     tenantId |-> m.tenantId, service |-> "deli",
                     checkpoint |-> Absent, isLocal |-> isLocal]>>,
     returned |-> 1]

\* ------------------------------------------------------------- object stores
Range(f) == {f[i] : i \in DOMAIN f}

\* Garbage collection: the nodes the map or the heap array reach, the value
\* objects those nodes or the snapshot reach, the arrays those values reach.
Collect(t, arrs, snap) ==
    LET liveNodes == Range(t.clientNodeMap) \cup Range(t.L)
        liveValues == {t.nodes[n].value : n \in liveNodes} \cup Range(snap)
        liveArrs == {t.values[v].scopes : v \in liveValues}
    IN  [nodes |-> [n \in liveNodes |-> t.nodes[n]],
         values |-> [v \in liveValues |-> t.values[v]],
         arrays |-> [a \in liveArrs |-> arrs[a]]]

\* The state after a call that left the tracker t, the arrays arrs, the
\* caller's snapshot snap.
Becomes(t, arrs, snap) ==
    LET c == Collect(t, arrs, snap)
    IN  /\ L' = t.L
        /\ nodes' = c.nodes
        /\ clientNodeMap' = t.clientNodeMap
        /\ values' = c.values
        /\ arrays' = c.arrays
        /\ snapshot' = snap
        /\ UNCHANGED <<checkpointVars, registryVars>>

\* ------------------------------------------------------------- debugger registry
ContainerIds == {"c1", "c2"}

\* What getFluidClientDebugger returns for `undefined`; debuggers are numbered
\* from 1.
NoDebugger == 0

\* The global context a call works on: globalThis.fluidClientDebuggers, the
\* debugger objects, and the dispose() calls made so far by the call.
Global == [fluidClientDebuggers |-> fluidClientDebuggers, debuggers |-> debuggers, disposeCalls |-> {}]

\* IFluidClientDebugger.dispose(): the debugger is disposed.
dispose(g, d) ==
    [g EXCEPT !.debuggers[d].disposed = TRUE, !.disposeCalls = @ \cup {d}]

\* getDebuggerRegistry: a new Map is bound when none is; the registry is then
\* g.fluidClientDebuggers.
getDebuggerRegistry(g) ==
    IF g.fluidClientDebuggers = Undefined
    THEN [g EXCEPT !.fluidClientDebuggers = EmptyMap]
    ELSE g

\* getFluidClientDebugger
getFluidClientDebugger(g, containerId) ==
    LET g1 == getDebuggerRegistry(g)
    IN  [g |-> g1,
         ret |-> IF MapHas(g1.fluidClientDebuggers, containerId)
                 THEN MapGet(g1.fluidClientDebuggers, containerId)
                 ELSE NoDebugger]

\* getFluidClientDebuggers: the debuggers of the registry's entries (as a set:
\* the order of the array is the Map's).
getFluidClientDebuggers(g) ==
    LET g1 == getDebuggerRegistry(g)
    IN  [g |-> g1, ret |-> Range(g1.fluidClientDebuggers)]

\* initializeFluidClientDebugger with the existing debugger left undisposed.
initializeFluidClientDebuggerNoDispose(g, containerId, new) ==
    LET g1 == getDebuggerRegistry(g)
        g2 == [g1 EXCEPT !.debuggers = MapSet(@, new, [containerId |-> containerId, disposed |-> FALSE])]
    IN  [g2 EXCEPT !.fluidClientDebuggers = MapSet(@, containerId, new)]

\* initializeFluidClientDebugger: the existing debugger of containerId, if
\* any, is disposed; a new FluidClientDebugger, `new`, is set for containerId.
initializeFluidClientDebugger(g, containerId, new) ==
    LET g1 == getDebuggerRegistry(g)
        g2 == IF MapHas(g1.fluidClientDebuggers, containerId)
              THEN dispose(g1, MapGet(g1.fluidClientDebuggers, containerId))
              ELSE g1
        g3 == [g2 EXCEPT !.debuggers = MapSet(@, new, [containerId |-> containerId, disposed |-> FALSE])]
    IN  [g3 EXCEPT !.fluidClientDebuggers = MapSet(@, containerId, new)]

\* setFluidClientDebugger: the existing debugger of clientDebugger.containerId,
\* if any, is disposed; clientDebugger is set for that containerId.
setFluidClientDebugger(g, clientDebugger) ==
    LET g1 == getDebuggerRegistry(g)
        containerId == g1.debuggers[clientDebugger].containerId
        g2 == IF MapHas(g1.fluidClientDebuggers, containerId)
              THEN dispose(g1, MapGet(g1.fluidClientDebuggers, containerId))
              ELSE g1
    IN  [g2 EXCEPT !.fluidClientDebuggers = MapSet(@, containerId, clientDebugger)]

\* closeFluidClientDebugger that disposes and leaves the entry in the registry.
closeFluidClientDebuggerNoDelete(g, containerId) ==
    LET g1 == getDebuggerRegistry(g)
    IN  IF ~MapHas(g1.fluidClientDebuggers, containerId)
        THEN g1
        ELSE dispose(g1, MapGet(g1.fluidClientDebuggers, containerId))

\* closeFluidClientDebugger: nothing (a warning) when containerId has no
\* debugger; else the debugger is disposed and the entry deleted.
closeFluidClientDebugger(g, containerId) ==
    LET g1 == getDebuggerRegistry(g)
    IN  IF ~MapHas(g1.fluidClientDebuggers, containerId)
        THEN g1
        ELSE LET g2 == dispose(g1, MapGet(g1.fluidClientDebuggers, containerId))
             IN  [g2 EXCEPT !.fluidClientDebuggers = MapDelete(@, containerId)]

\* dispose() on each debugger of S, in any order.
RECURSIVE disposeEach(_, _)
disposeEach(g, S) ==
    IF S = {} THEN g ELSE LET d == CHOOSE d \in S : TRUE IN disposeEach(dispose(g, d), S \ {d})

\* clearDebuggerRegistry without the test of clientDebugger.disposed.
clearDebuggerRegistryDisposesAll(g) ==
    LET g1 == IF g.fluidClientDebuggers # Undefined
              THEN disposeEach(g, Range(g.fluidClientDebuggers))
              ELSE g
    IN  [g1 EXCEPT !.fluidClientDebuggers = Undefined]

\* clearDebuggerRegistry: when a registry is bound, dispose() on each of its
\* debuggers that is not disposed; then globalThis.fluidClientDebuggers is
\* undefined.
clearDebuggerRegistry(g) ==
    LET g1 == IF g.fluidClientDebuggers # Undefined
              THEN disposeEach(g, {d \in Range(g.fluidClientDebuggers) : ~g.debuggers[d].disposed})
              ELSE g
    IN  [g1 EXCEPT !.fluidClientDebuggers = Undefined]

\* ------------------------------------------------------------- actions
Init ==
    /\ L = <<>>
    /\ nodes = EmptyMap
    /\ clientNodeMap = EmptyMap
    /\ values = EmptyMap
    /\ arrays = EmptyMap
    /\ objects = [m \in MetaRefs |-> 0]
    /\ snapshot = <<>>
    /\ held = "none"
    /\ upserted = {}
    /\ collection = [slot \in Slots |-> Absent]
    /\ calls = <<>>
    /\ requests = <<>>
    /\ fluidClientDebuggers = Undefined
    /\ debuggers = EmptyMap
    /\ disposeCalls = {}
    /\ registered = [containerId \in ContainerIds |-> NoDebugger]

\* A call of upsertClient; scopesValue is the content of the array passed.
DoUpsertClient(clientId, clientSequenceNumber, referenceSequenceNumber, timestamp, canEvict, scopesValue, nack, serverMetadata) ==
    LET scopes == Fresh(DOMAIN arrays, clientId)
        r == upsertClient(Tracker, clientId, clientSequenceNumber,
                          referenceSequenceNumber, timestamp, canEvict, scopes,
                          nack, serverMetadata)
    IN  /\ Becomes(r.t, MapSet(arrays, scopes, scopesValue), snapshot)
        /\ upserted' = upserted \cup {clientId}
        /\ UNCHANGED <<objects, held>>

\* A call of removeClient.
DoRemoveClient(clientId) ==
    LET r == removeClient(Tracker, clientId)
    IN  /\ Becomes(r.t, arrays, snapshot)
        /\ upserted' = upserted \ {clientId}
        /\ UNCHANGED <<objects, held>>

\* upsertClient as Spec calls it: a reference sequence number, the other
\* arguments fixed, scopes left to its default.
CoreUpsert(t, clientId, referenceSequenceNumber) ==
    upsertClient(t, clientId, 1, referenceSequenceNumber, 100, TRUE,
                 Fresh(DOMAIN arrays, clientId), FALSE, MetaUndefined)

\* The tracker under upsertClient and removeClient, reference sequence numbers
\* varying, the other arguments fixed.
Next ==
    \/ \E clientId \in ClientIds, referenceSequenceNumber \in Refs :
           DoUpsertClient(clientId, 1, referenceSequenceNumber, 100, TRUE, <<>>,
                          FALSE, MetaUndefined)
    \/ \E clientId \in ClientIds : DoRemoveClient(clientId)

Spec == Init /\ [][Next]_vars

\* ------------------------------------------------------------- every field
\* The tracker with every argument of upsertClient varying, for fewer clients.
FieldClients == 2
FieldIds == 1..FieldClients
Csns == {1, 2}
FieldRefs == {0, 1}
Timestamps == {100, 101}
ScopeValues == {<<>>, <<"doc:read">>}

\* The calls reach the states: clientSequenceNumber, referenceSequenceNumber,
\* timestamp and nack rise together, scopes goes with canEvict, one metadata
\* object is stored.  The claims then try every combination of arguments in
\* each of these states.
FieldsNext ==
    \/ \E clientId \in FieldIds, csn \in Csns, canEvict \in BOOLEAN, serverMetadata \in Metas \ {"m2"} :
           DoUpsertClient(clientId, csn, csn - 1, 99 + csn, canEvict,
                          IF canEvict THEN <<>> ELSE <<"doc:read">>,
                          csn = 2, serverMetadata)
    \/ \E clientId \in FieldIds : DoRemoveClient(clientId)

SpecFields == Init /\ [][FieldsNext]_vars

\* ------------------------------------------------------------- cloneValues
\* `clients.push(source)` in the place of `clients.push({ ...source })`: the
\* tracker's own object.
cloneEntryNoCopy(vals, source) == [values |-> vals, entry |-> source]

\* A copy that leaves serverMetadata out.
cloneEntryWithoutMetadata(vals, source) ==
    LET c == Fresh(DOMAIN vals, NumClients + 1)
    IN  [values |-> MapSet(vals, c, [vals[source] EXCEPT !.serverMetadata = MetaUndefined]),
         entry |-> c]

\* `{ ...source }`: a new object with the fields of source; a field that holds
\* a reference (scopes, serverMetadata) holds the same reference in the copy.
cloneEntry(vals, source) ==
    LET c == Fresh(DOMAIN vals, NumClients + 1)
    IN  [values |-> MapSet(vals, c, vals[source]), entry |-> c]

\* cloneValues: one copy for each entry of the map, in the order `order` the
\* iteration of the map yields them.
RECURSIVE cloneValues(_, _)
cloneValues(t, order) ==
    IF order = <<>>
    THEN [t |-> t, clients |-> <<>>]
    ELSE LET r == cloneValues(t, SubSeq(order, 1, Len(order) - 1))
             value == MapGet(r.t.clientNodeMap, order[Len(order)])
             source == r.t.nodes[value].value
             e == cloneEntry(r.t.values, source)
         IN  [t |-> [r.t EXCEPT !.values = e.values],
              clients |-> Append(r.clients, e.entry)]

\* The orders the iteration of a map with the keys S may take.
Orders(S) == {o \in [1..Cardinality(S) -> S] : \A i, j \in DOMAIN o : o[i] = o[j] => i = j}

\* A call of cloneValues; the caller keeps the array returned.
DoCloneValues(order) ==
    LET r == cloneValues(Tracker, order)
    IN  /\ held = "none"
        /\ Becomes(r.t, arrays, r.clients)
        /\ held' = "fresh"
        /\ UNCHANGED <<objects, upserted>>

\* ------------------------------------------------------------- the caller
\* What the caller does with the array cloneValues returned: one change, then
\* it lets go of it.  "mutated" after a change of the array or of a field of
\* one of its elements, "reached" after a change of an object a field of an
\* element refers to.

\* clients.push(clients[i])
SnapshotPush(i) ==
    /\ held = "fresh" /\ i \in DOMAIN snapshot /\ Len(snapshot) < Cardinality(DOMAIN values)
    /\ Becomes(Tracker, arrays, Append(snapshot, snapshot[i]))
    /\ held' = "mutated"
    /\ UNCHANGED <<objects, upserted>>

\* clients.pop()
SnapshotPop ==
    /\ held = "fresh" /\ snapshot # <<>>
    /\ Becomes(Tracker, arrays, SubSeq(snapshot, 1, Len(snapshot) - 1))
    /\ held' = "mutated"
    /\ UNCHANGED <<objects, upserted>>

\* clients[i] = clients[j]
SnapshotReplace(i, j) ==
    /\ held = "fresh" /\ i \in DOMAIN snapshot /\ j \in DOMAIN snapshot
    /\ snapshot[i] # snapshot[j]
    /\ Becomes(Tracker, arrays, [snapshot EXCEPT ![i] = snapshot[j]])
    /\ held' = "mutated"
    /\ UNCHANGED <<objects, upserted>>

\* clients[i].referenceSequenceNumber = -1; clients[i].clientSequenceNumber = 0;
\* clients[i].lastUpdate = 0; clients[i].nack = true; clients[i].canEvict = false
SnapshotAssign(i) ==
    /\ held = "fresh" /\ i \in DOMAIN snapshot
    /\ values[snapshot[i]].referenceSequenceNumber # NoClients
    /\ Becomes([Tracker EXCEPT !.values[snapshot[i]] =
                   [@ EXCEPT !.referenceSequenceNumber = NoClients,
                             !.clientSequenceNumber = 0,
                             !.lastUpdate = 0,
                             !.nack = TRUE,
                             !.canEvict = FALSE]],
               arrays, snapshot)
    /\ held' = "mutated"
    /\ UNCHANGED <<objects, upserted>>

\* clients[i].scopes = []; clients[i].serverMetadata = undefined
SnapshotAssignReferences(i) ==
    LET scopes == Fresh(DOMAIN arrays, NumClients + 1)
    IN  /\ held = "fresh" /\ i \in DOMAIN snapshot
        /\ Becomes([Tracker EXCEPT !.values[snapshot[i]] =
                       [@ EXCEPT !.scopes = scopes, !.serverMetadata = MetaUndefined]],
                   MapSet(arrays, scopes, <<>>), snapshot)
        /\ held' = "mutated"
        /\ UNCHANGED <<objects, upserted>>

\* clients[i].scopes.push("x"), once for an array.
SnapshotScopesPush(i) ==
    LET scopes == values[snapshot[i]].scopes
    IN  /\ held = "fresh" /\ i \in DOMAIN snapshot
        /\ "x" \notin Range(arrays[scopes])
        /\ Becomes(Tracker, [arrays EXCEPT ![scopes] = Append(@, "x")], snapshot)
        /\ held' = "reached"
        /\ UNCHANGED <<objects, upserted>>

\* clients[i].serverMetadata.payload = 1 - clients[i].serverMetadata.payload
SnapshotMetadataWrite(i) ==
    LET serverMetadata == values[snapshot[i]].serverMetadata
    IN  /\ held = "fresh" /\ i \in DOMAIN snapshot
        /\ Truthy(serverMetadata)
        /\ objects' = [objects EXCEPT ![serverMetadata] = 1 - @]
        /\ held' = "reached"
        /\ UNCHANGED <<L, nodes, clientNodeMap, values, arrays, snapshot, upserted>>
        /\ UNCHANGED <<checkpointVars, registryVars>>

\* The caller lets go of the array.
DropSnapshot ==
    /\ held # "none"
    /\ Becomes(Tracker, arrays, <<>>)
    /\ held' = "none"
    /\ UNCHANGED <<objects, upserted>>

CloneClients == 2
CloneIds == 1..CloneClients

\* The tracker with a caller of cloneValues: upsertClient and removeClient
\* while the caller holds no array, then cloneValues and the caller's changes.
CloneNext ==
    \/ \E clientId \in CloneIds, referenceSequenceNumber \in FieldRefs, serverMetadata \in {MetaUndefined, "m1"} :
           /\ held = "none"
           /\ DoUpsertClient(clientId, 1, referenceSequenceNumber, 100, TRUE,
                             <<"doc:read">>, FALSE, serverMetadata)
    \/ \E clientId \in CloneIds : held = "none" /\ DoRemoveClient(clientId)
    \/ \E order \in Orders(DOMAIN clientNodeMap) : DoCloneValues(order)
    \/ \E i \in DOMAIN snapshot : SnapshotPush(i)
    \/ SnapshotPop
    \/ \E i, j \in DOMAIN snapshot : SnapshotReplace(i, j)
    \/ \E i \in DOMAIN snapshot : SnapshotAssign(i)
    \/ \E i \in DOMAIN snapshot : SnapshotAssignReferences(i)
    \/ \E i \in DOMAIN snapshot : SnapshotScopesPush(i)
    \/ \E i \in DOMAIN snapshot : SnapshotMetadataWrite(i)
    \/ DropSnapshot

SpecClone == Init /\ [][CloneNext]_vars

\* ------------------------------------------------------------- checkpoint calls
MaxCalls == 2

\* A call of the manager, `made` what it does before it returns: the call
\* joins `calls` with its promise pending, its service calls join `requests`,
\* pending.  awaited: the caller had seen every earlier call on this tier
\* complete.  m is the manager called.
Issue(m, op, isLocal, checkpoint, made) ==
    /\ Len(calls) < MaxCalls
    /\ calls' = Append(calls,
                       [manager |-> m,
                        op |-> op, isLocal |-> isLocal, checkpoint |-> checkpoint,
                        result |-> "pending",
                        returned |-> IF made.returned = 0 THEN 0 ELSE Len(requests) + made.returned,
                        awaited |-> \A c \in DOMAIN calls :
                                        calls[c].isLocal = isLocal => calls[c].result # "pending"])
    /\ requests' = requests \o
                   [i \in DOMAIN made.requests |->
                       [call |-> Len(calls) + 1, state |-> "pending",
                        op |-> made.requests[i].op,
                        documentId |-> made.requests[i].documentId,
                        tenantId |-> made.requests[i].tenantId,
                        service |-> made.requests[i].service,
                        checkpoint |-> made.requests[i].checkpoint,
                        isLocal |-> made.requests[i].isLocal]]
    /\ UNCHANGED collection
    /\ UNCHANGED <<trackerVars, registryVars>>

\* A call of writeCheckpoint.
DoWriteCheckpoint(checkpoint, isLocal, reason) ==
    Issue(Manager, "writeCheckpoint", isLocal, checkpoint, writeCheckpoint(Manager, checkpoint, isLocal, reason))

\* A call of deleteCheckpoint.
DoDeleteCheckpoint(checkpointParams, isLocal) ==
    Issue(Manager, "deleteCheckpoint", isLocal, Absent, deleteCheckpoint(Manager, checkpointParams, isLocal))

\* The store carries out a pending service call, whose promise is fulfilled.
RepositorySucceeds(r) ==
    /\ requests[r].state = "pending"
    /\ collection' = Effect(collection, requests[r])
    /\ requests' = [requests EXCEPT ![r].state = "fulfilled"]
    /\ UNCHANGED calls
    /\ UNCHANGED <<trackerVars, registryVars>>

\* The store fails a pending service call, whose promise is rejected.
RepositoryFails(r) ==
    /\ requests[r].state = "pending"
    /\ requests' = [requests EXCEPT ![r].state = "rejected"]
    /\ UNCHANGED <<collection, calls>>
    /\ UNCHANGED <<trackerVars, registryVars>>

\* What the promise of an async function settles as: fulfilled when the
\* function returned no promise, else as the promise it returned.
SettledAs(c) ==
    IF calls[c].returned = 0 THEN "fulfilled" ELSE requests[calls[c].returned].state

\* The promise call c returned settles, after the promise it resolves to.
Settle(c) ==
    /\ calls[c].result = "pending"
    /\ SettledAs(c) # "pending"
    /\ calls' = [calls EXCEPT ![c].result = SettledAs(c)]
    /\ UNCHANGED <<collection, requests>>
    /\ UNCHANGED <<trackerVars, registryVars>>

\* The manager under any caller and a store that may fail any call.
CheckpointNext ==
    \/ \E checkpoint \in Checkpoints, isLocal \in BOOLEAN, reason \in CheckpointReasons :
           DoWriteCheckpoint(checkpoint, isLocal, reason)
    \/ \E checkpointParams \in CheckpointParams, isLocal \in BOOLEAN :
           DoDeleteCheckpoint(checkpointParams, isLocal)
    \/ \E r \in DOMAIN requests : RepositorySucceeds(r)
    \/ \E r \in DOMAIN requests : RepositoryFails(r)
    \/ \E c \in DOMAIN calls : Settle(c)

SpecCheckpoint == Init /\ [][CheckpointNext]_vars

\* ------------------------------------------------------------- several managers
\* Managers on the same service: two for the documents of one tenant, one
\* for a document of the same name of another tenant.
Managers ==
    {[tenantId |-> "t1", documentId |-> "d1"],
     [tenantId |-> "t1", documentId |-> "d2"],
     [tenantId |-> "t2", documentId |-> "d1"]}

\* A call of writeCheckpoint of manager m.
DoWriteCheckpointOf(m, checkpoint, isLocal, reason) ==
    Issue(m, "writeCheckpoint", isLocal, checkpoint, writeCheckpoint(m, checkpoint, isLocal, reason))

\* A call of deleteCheckpoint of manager m.
DoDeleteCheckpointOf(m, checkpointParams, isLocal) ==
    Issue(m, "deleteCheckpoint", isLocal, Absent, deleteCheckpoint(m, checkpointParams, isLocal))

\* The managers of the documents under any caller, each writing the
\* checkpoint with its document's sequence number.
ManagersNext ==
    \/ \E m \in Managers, isLocal \in BOOLEAN, reason \in CheckpointReasons :
           DoWriteCheckpointOf(m, [sequenceNumber |-> IF m.documentId = "d1" THEN 1 ELSE 2], isLocal, reason)
    \/ \E m \in Managers, checkpointParams \in CheckpointParams, isLocal \in BOOLEAN :
           DoDeleteCheckpointOf(m, checkpointParams, isLocal)
    \/ \E r \in DOMAIN requests : RepositorySucceeds(r)
    \/ \E r \in DOMAIN requests : RepositoryFails(r)
    \/ \E c \in DOMAIN calls : Settle(c)

SpecManagers == Init /\ [][ManagersNext]_vars

\* ------------------------------------------------------------- registry calls
MaxDebuggers == 3

\* The debugger object created next.
NewDebugger == Cardinality(DOMAIN debuggers) + 1

\* The state after a call into the registry that left the global context g.
RegistryBecomes(g) ==
    /\ fluidClientDebuggers' = g.fluidClientDebuggers
    /\ debuggers' = g.debuggers
    /\ disposeCalls' = g.disposeCalls
    /\ UNCHANGED <<trackerVars, checkpointVars>>

DoInitializeFluidClientDebugger(containerId) ==
    /\ NewDebugger <= MaxDebuggers
    /\ RegistryBecomes(initializeFluidClientDebugger(Global, containerId, NewDebugger))
    /\ registered' = [registered EXCEPT ![containerId] = NewDebugger]

\* A debugger created by the caller for containerId and handed to
\* setFluidClientDebugger.
DoSetNewFluidClientDebugger(containerId) ==
    LET g == [Global EXCEPT !.debuggers = MapSet(@, NewDebugger, [containerId |-> containerId, disposed |-> FALSE])]
    IN  /\ NewDebugger <= MaxDebuggers
        /\ RegistryBecomes(setFluidClientDebugger(g, NewDebugger))
        /\ registered' = [registered EXCEPT ![containerId] = NewDebugger]

\* A debugger the caller still holds handed to setFluidClientDebugger.
DoSetFluidClientDebugger(clientDebugger) ==
    /\ RegistryBecomes(setFluidClientDebugger(Global, clientDebugger))
    /\ registered' = [registered EXCEPT ![debuggers[clientDebugger].containerId] = clientDebugger]

DoCloseFluidClientDebugger(containerId) ==
    /\ RegistryBecomes(closeFluidClientDebugger(Global, containerId))
    /\ registered' = [registered EXCEPT ![containerId] = NoDebugger]

DoGetFluidClientDebugger(containerId) ==
    /\ RegistryBecomes(getFluidClientDebugger(Global, containerId).g)
    /\ UNCHANGED registered

DoGetFluidClientDebuggers ==
    /\ RegistryBecomes(getFluidClientDebuggers(Global).g)
    /\ UNCHANGED registered

DoClearDebuggerRegistry ==
    /\ RegistryBecomes(clearDebuggerRegistry(Global))
    /\ registered' = [containerId \in ContainerIds |-> NoDebugger]

RegistryNext ==
    \/ \E containerId \in ContainerIds : DoInitializeFluidClientDebugger(containerId)
    \/ \E containerId \in ContainerIds : DoSetNewFluidClientDebugger(containerId)
    \/ \E clientDebugger \in DOMAIN debuggers : DoSetFluidClientDebugger(clientDebugger)
    \/ \E containerId \in ContainerIds : DoCloseFluidClientDebugger(containerId)
    \/ \E containerId \in ContainerIds : DoGetFluidClientDebugger(containerId)
    \/ DoGetFluidClientDebuggers
    \/ DoClearDebuggerRegistry

SpecRegistry == Init /\ [][RegistryNext]_vars

\* ------------------------------------------------------------- claims
Tracked == {clientId \in ClientIds : has(Tracker, clientId)}

Min(S) == CHOOSE x \in S : \A y \in S : x <= y

\* The position in the heap array of a tracked client's node.
PositionOf(clientId) == nodes[MapGet(clientNodeMap, clientId)].position

\* C1: in every reachable state getMinimumSequenceNumber() is the least
\* referenceSequenceNumber get() reports over the tracked clients, and -1
\* when no client is tracked.
C1_MinimumIsLeastTracked ==
    getMinimumSequenceNumber(Tracker) =
        IF Tracked = {}
        THEN NoClients
        ELSE Min({get(Tracker, clientId).referenceSequenceNumber : clientId \in Tracked})

\* C1 witness: three or more clients are tracked, two of them tied for the
\* minimum, which is above -1, and one above it that is not at the end of the
\* heap array.
C1_Witness ==
    /\ count(Tracker) >= 3
    /\ getMinimumSequenceNumber(Tracker) > NoClients
    /\ \E a, b, c \in Tracked :
          /\ a # b
          /\ get(Tracker, a).referenceSequenceNumber = getMinimumSequenceNumber(Tracker)
          /\ get(Tracker, b).referenceSequenceNumber = getMinimumSequenceNumber(Tracker)
          /\ get(Tracker, c).referenceSequenceNumber > getMinimumSequenceNumber(Tracker)
          /\ PositionOf(c) < Len(L)

\* C2: one tracked state per tracked clientId: no two entries of the heap
\* array hold the same clientId, every entry is the node the map holds for its
\* clientId, and the heap array has count() entries.
C2_OneStatePerClient ==
    /\ \A i, j \in DOMAIN L :
          i # j => ValueAt(Tracker, i).clientId # ValueAt(Tracker, j).clientId
    /\ \A i \in DOMAIN L :
          /\ has(Tracker, ValueAt(Tracker, i).clientId)
          /\ MapGet(clientNodeMap, ValueAt(Tracker, i).clientId) = L[i]
    /\ HeapCount(Tracker) = count(Tracker)

\* C2 witness: every client is tracked, after a removal and a new insertion
\* moved a client to the end of the heap array though it has the least id.
C2_Witness ==
    /\ count(Tracker) = NumClients
    /\ PositionOf(1) = Len(L)
    /\ get(Tracker, 1).referenceSequenceNumber = MaxRef

\* C3: in every reachable state, upsertClient returns true exactly when the
\* clientId is not tracked; when it returns false count() is as before, when
\* it returns true count() is one more.
C3_UpsertReturnsFirstSeen ==
    \A clientId \in ClientIds, referenceSequenceNumber \in Refs :
        LET r == CoreUpsert(Tracker, clientId, referenceSequenceNumber)
        IN  /\ r.ret = ~has(Tracker, clientId)
            /\ r.ret => count(r.t) = count(Tracker) + 1
            /\ ~r.ret => count(r.t) = count(Tracker)

\* C3 witness: a state with a tracked and an untracked clientId, where
\* upsertClient returns false for the one and true for the other.
C3_Witness ==
    \E a, b \in ClientIds :
        /\ has(Tracker, a) /\ ~has(Tracker, b)
        /\ ~CoreUpsert(Tracker, a, MaxRef).ret
        /\ CoreUpsert(Tracker, b, MaxRef).ret

\* C4: count() is the number of clientIds upserted and not removed since.
C4_CountIsUpsertedNotRemoved == count(Tracker) = Cardinality(upserted)

\* C4 witness: all but one of the clientIds are tracked.
C4_Witness == Cardinality(upserted) = NumClients - 1 /\ count(Tracker) = NumClients - 1

\* C5: in every reachable state, removeClient of a tracked clientId returns
\* true, count() is one less, has() is false and get() absent afterwards,
\* wherever the client's node is in the heap array.
C5_RemoveTracked ==
    \A clientId \in Tracked :
        LET r == removeClient(Tracker, clientId)
        IN  /\ r.ret
            /\ count(r.t) = count(Tracker) - 1
            /\ ~has(r.t, clientId)
            /\ get(r.t, clientId) = Undefined

\* C5 witness: tracked clients at the top, inside and at the end of the heap
\* array, each of which removeClient removes.
C5_Witness ==
    \E a, b, c \in Tracked :
        /\ PositionOf(a) = 1
        /\ PositionOf(b) > 1 /\ PositionOf(b) < Len(L) /\ 2 * PositionOf(b) <= Len(L)
        /\ PositionOf(c) = Len(L)
        /\ \A x \in {a, b, c} : removeClient(Tracker, x).ret /\ ~has(removeClient(Tracker, x).t, x)

\* C6: in every reachable state, removeClient of an untracked clientId returns
\* false and leaves the tracker as it is; and removeClient called twice for a
\* tracked clientId returns true, then false with nothing changed.
C6_RemoveUntracked ==
    /\ \A clientId \in ClientIds \ Tracked :
          removeClient(Tracker, clientId) = [t |-> Tracker, ret |-> FALSE]
    /\ \A clientId \in Tracked :
          LET first == removeClient(Tracker, clientId)
              second == removeClient(first.t, clientId)
          IN  first.ret /\ ~second.ret /\ second.t = first.t

\* C6 witness: a tracker with tracked clients and an untracked clientId, for
\* which removeClient returns false.
C6_Witness ==
    /\ count(Tracker) >= 2
    /\ \E clientId \in ClientIds \ Tracked : ~removeClient(Tracker, clientId).ret

\* C7: in every reachable state, upsertClient of a tracked clientId returns
\* false and get() then reports the call's referenceSequenceNumber,
\* clientSequenceNumber, timestamp (lastUpdate) and nack, whatever the
\* arguments are against the stored fields.
C7_UpdateStoresArguments ==
    \A clientId \in Tracked, csn \in Csns, ref \in FieldRefs, timestamp \in Timestamps,
       nack \in BOOLEAN, serverMetadata \in Metas :
        LET r == upsertClient(Tracker, clientId, csn, ref, timestamp, TRUE,
                              Fresh(DOMAIN arrays, clientId), nack, serverMetadata)
            after == get(r.t, clientId)
        IN  /\ ~r.ret
            /\ after.referenceSequenceNumber = ref
            /\ after.clientSequenceNumber = csn
            /\ after.lastUpdate = timestamp
            /\ after.nack = nack

\* C7 witness: a tracked client holds the higher stored values and another the
\* lower ones; an update of the first with the lower values (and of the second
\* with the higher ones) is what get() reports afterwards.
C7_Witness ==
    \E a, b \in Tracked :
        /\ get(Tracker, a).referenceSequenceNumber = 1
        /\ get(Tracker, a).clientSequenceNumber = 2
        /\ get(Tracker, a).lastUpdate = 101
        /\ get(Tracker, a).nack
        /\ get(Tracker, b).referenceSequenceNumber = 0
        /\ get(Tracker, b).clientSequenceNumber = 1
        /\ get(upsertClient(Tracker, a, 1, 0, 100, TRUE, Fresh(DOMAIN arrays, a),
                            FALSE, MetaUndefined).t, a).referenceSequenceNumber = 0
        /\ get(upsertClient(Tracker, b, 2, 1, 101, TRUE, Fresh(DOMAIN arrays, b),
                            TRUE, MetaUndefined).t, b).clientSequenceNumber = 2

\* C8: in every reachable state, upsertClient of a tracked clientId leaves the
\* stored serverMetadata as it is when the call's value is absent or falsy,
\* and stores the call's value otherwise.
C8_MetadataKeptUnlessTruthy ==
    \A clientId \in Tracked, csn \in Csns, serverMetadata \in Metas :
        LET r == upsertClient(Tracker, clientId, csn, csn - 1, 99 + csn, TRUE,
                              Fresh(DOMAIN arrays, clientId), FALSE, serverMetadata)
            before == get(Tracker, clientId).serverMetadata
            after == get(r.t, clientId).serverMetadata
        IN  /\ serverMetadata \in {MetaUndefined, MetaEmpty} => after = before
            /\ serverMetadata \in MetaRefs => after = serverMetadata

\* C8 witness: a tracked client holds a metadata object; an update without
\* metadata or with the empty value keeps it, one with another object replaces it.
C8_Witness ==
    \E clientId \in Tracked :
        /\ get(Tracker, clientId).serverMetadata = "m1"
        /\ get(upsertClient(Tracker, clientId, 2, 1, 101, TRUE, Fresh(DOMAIN arrays, clientId),
                            FALSE, MetaEmpty).t, clientId).serverMetadata = "m1"
        /\ get(upsertClient(Tracker, clientId, 2, 1, 101, TRUE, Fresh(DOMAIN arrays, clientId),
                            FALSE, MetaUndefined).t, clientId).serverMetadata = "m1"
        /\ get(upsertClient(Tracker, clientId, 2, 1, 101, TRUE, Fresh(DOMAIN arrays, clientId),
                            FALSE, "m2").t, clientId).serverMetadata = "m2"

\* What peek() or get() returns, read through: the fields of the object, the
\* content of its scopes array, the payload of its serverMetadata object.
ReadThrough(v) ==
    IF v = Undefined
    THEN v
    ELSE [fields |-> v,
          scopes |-> arrays[v.scopes],
          payload |-> IF v.serverMetadata \in MetaRefs THEN objects[v.serverMetadata] ELSE 0]

\* The results of peek(), get(id) for every id, count() and
\* getMinimumSequenceNumber().
View ==
    [peek |-> ReadThrough(peek(Tracker)),
     get |-> [clientId \in ClientIds |-> ReadThrough(get(Tracker, clientId))],
     count |-> count(Tracker),
     getMinimumSequenceNumber |-> getMinimumSequenceNumber(Tracker)]

\* C9: a change of the array cloneValues() returned (an element added, removed
\* or replaced) or an assignment to a field of one of its elements leaves the
\* results of peek(), get(id), count() and getMinimumSequenceNumber() as they
\* were.
C9_CloneIsACopy == [][held' = "mutated" => View' = View]_vars

\* C9 witness: two clients are tracked and the caller has assigned the fields
\* of the element of one of them, whose referenceSequenceNumber in the array is
\* now -1 while get() reports the stored one.
C9_Witness ==
    /\ held = "mutated"
    /\ count(Tracker) = 2
    /\ \E i \in DOMAIN snapshot :
           LET entry == values[snapshot[i]]
           IN  /\ has(Tracker, entry.clientId)
               /\ entry.referenceSequenceNumber = NoClients
               /\ get(Tracker, entry.clientId).referenceSequenceNumber # NoClients
               /\ entry.scopes = get(Tracker, entry.clientId).scopes

\* C10: no change made through the array cloneValues() returned, a change of
\* the scopes array or of the serverMetadata object of an element included, is
\* visible through get() or peek().
C10_SnapshotAliasesNothing ==
    [][held' \in {"mutated", "reached"} =>
           /\ ReadThrough(peek(Tracker))' = ReadThrough(peek(Tracker))
           /\ \A clientId \in ClientIds :
                  ReadThrough(get(Tracker, clientId))' = ReadThrough(get(Tracker, clientId))]_vars

\* C11: the array cloneValues() returned holds count() entries, one for each
\* tracked clientId and none for another id, each with the fields get()
\* reports for its clientId.
C11_CloneHoldsEveryTracked ==
    held = "fresh" =>
        /\ Len(snapshot) = count(Tracker)
        /\ {values[snapshot[i]].clientId : i \in DOMAIN snapshot} = Tracked
        /\ \A i, j \in DOMAIN snapshot :
               values[snapshot[i]].clientId = values[snapshot[j]].clientId => i = j
        /\ \A i \in DOMAIN snapshot :
               values[snapshot[i]] = get(Tracker, values[snapshot[i]].clientId)

\* C11 witness: cloneValues() has returned two entries, for two tracked
\* clients that differ in referenceSequenceNumber and in serverMetadata, and
\* a third clientId is not tracked.
C11_Witness ==
    /\ held = "fresh"
    /\ Len(snapshot) = 2
    /\ values[snapshot[1]].referenceSequenceNumber # values[snapshot[2]].referenceSequenceNumber
    /\ values[snapshot[1]].serverMetadata = "m1"
    /\ values[snapshot[2]].serverMetadata = MetaUndefined
    /\ \E clientId \in ClientIds : ~has(Tracker, clientId)

\* C12: peek() is undefined exactly when count() is 0; else it is the entry
\* get() reports for a tracked client, with a referenceSequenceNumber no
\* tracked client is below, and getMinimumSequenceNumber() is that number;
\* count() and every get() are after peek() what they were before it.
C12_PeekIsMinimumAndRemovesNothing ==
    LET r == callPeek(Tracker)
    IN  /\ (r.ret = Undefined) <=> (count(Tracker) = 0)
        /\ r.ret # Undefined =>
               /\ has(Tracker, r.ret.clientId)
               /\ get(Tracker, r.ret.clientId) = r.ret
               /\ \A clientId \in Tracked :
                      r.ret.referenceSequenceNumber <= get(Tracker, clientId).referenceSequenceNumber
               /\ getMinimumSequenceNumber(Tracker) = r.ret.referenceSequenceNumber
        /\ count(r.t) = count(Tracker)
        /\ \A clientId \in ClientIds : get(r.t, clientId) = get(Tracker, clientId)

\* C12 witness: three or more clients are tracked, peek() returns a client
\* other than client 1, and the second and the last node of the heap's array
\* hold a higher referenceSequenceNumber than the one peek() returns.
C12_Witness ==
    /\ count(Tracker) >= 3
    /\ peek(Tracker).referenceSequenceNumber < ValueAt(Tracker, Len(L)).referenceSequenceNumber
    /\ peek(Tracker).referenceSequenceNumber < ValueAt(Tracker, 2).referenceSequenceNumber
    /\ peek(Tracker).clientId # 1

\* C13: while a client stays tracked, the referenceSequenceNumber get()
\* reports for it never goes below the one it reported before.
C13_ReferenceNeverDecreases ==
    [][\A clientId \in ClientIds :
           has(Tracker, clientId) /\ has(Tracker, clientId)' =>
               get(Tracker, clientId)'.referenceSequenceNumber >=
                   get(Tracker, clientId).referenceSequenceNumber]_vars

\* ------------------------------------------------------------- checkpoint claims
\* The service calls call c made.
RequestsOf(c) == {r \in DOMAIN requests : requests[r].call = c}

\* The slot of a call of the manager: its tenant, its document, the tier of
\* the call.
CallSlot(c) ==
    [documentId |-> Manager.documentId, tenantId |-> Manager.tenantId,
     service |-> "deli", isLocal |-> calls[c].isLocal]

\* The calls on a tier.
CallsOn(isLocal) == {c \in DOMAIN calls : calls[c].isLocal = isLocal}

\* The caller issued every call on the tier after the completion of the ones
\* before it on the tier.
Serialized(isLocal) == \A c \in CallsOn(isLocal) : calls[c].awaited

\* This step is the one in which the store carries out service call r.
TakesEffect(r) == requests[r].state = "pending" /\ requests'[r].state = "fulfilled"

\* C14: the step in which the store carries out the service call of a
\* writeCheckpoint leaves the call's slot holding the checkpoint written,
\* whatever it held, and the step in which it carries out the service call of
\* a deleteCheckpoint leaves the call's slot Absent.
C14_SlotFollowsCompletedCall ==
    [][\A c \in DOMAIN calls : \A r \in RequestsOf(c) :
           TakesEffect(r) =>
               collection'[CallSlot(c)] =
                   IF calls[c].op = "writeCheckpoint" THEN calls[c].checkpoint ELSE Absent]_vars

\* C14 witness: a writeCheckpoint on the global tier completed, then a
\* deleteCheckpoint on the global tier completed, and the slot is Absent.
C14_Witness ==
    /\ Len(calls) = 2
    /\ calls[1].op = "writeCheckpoint" /\ calls[2].op = "deleteCheckpoint"
    /\ ~calls[1].isLocal /\ ~calls[2].isLocal
    /\ calls[2].awaited
    /\ calls[1].result = "fulfilled" /\ calls[2].result = "fulfilled"
    /\ collection[CallSlot(2)] = Absent

\* C15: a writeCheckpoint makes one service call; when the store fails it, the
\* promise writeCheckpoint returned is rejected, or is pending and settles as
\* rejected: it is never fulfilled.
C15_WriteFailureIsSurfaced ==
    \A c \in DOMAIN calls :
        calls[c].op = "writeCheckpoint" =>
            /\ Cardinality(RequestsOf(c)) = 1
            /\ \A r \in RequestsOf(c) :
                   /\ requests[r].op = "writeCheckpointToCollection"
                   /\ requests[r].state = "rejected" =>
                          \/ calls[c].result = "rejected"
                          \/ calls[c].result = "pending" /\ SettledAs(c) = "rejected"

\* C15 witness: the store failed the service call of a writeCheckpoint and
\* the promise writeCheckpoint returned is rejected.
C15_Witness ==
    \E c \in DOMAIN calls :
        /\ calls[c].op = "writeCheckpoint"
        /\ calls[c].result = "rejected"
        /\ \E r \in RequestsOf(c) : requests[r].state = "rejected"

\* C16: the promise deleteCheckpoint returned is never rejected, and the store
\* carrying out the service call of a deleteCheckpoint whose slot is Absent
\* leaves the slot Absent.
C16_DeleteFailsSilently ==
    [][\A c \in DOMAIN calls :
           calls[c].op = "deleteCheckpoint" =>
               /\ calls'[c].result # "rejected"
               /\ \A r \in RequestsOf(c) :
                      TakesEffect(r) /\ collection[CallSlot(c)] = Absent =>
                          collection'[CallSlot(c)] = Absent]_vars

\* The slot of the manager on a tier.
TierSlot(isLocal) ==
    [documentId |-> Manager.documentId, tenantId |-> Manager.tenantId,
     service |-> "deli", isLocal |-> isLocal]

\* The call before c on c's tier, if any.
PreviousOn(c) ==
    {p \in CallsOn(calls[c].isLocal) :
        p < c /\ \A q \in CallsOn(calls[c].isLocal) : ~(p < q /\ q < c)}

\* C17: with the calls of a tier issued one after the completion of the
\* other, the store carrying out a writeCheckpoint that follows a fulfilled
\* writeCheckpoint of the same checkpoint on the tier, or a deleteCheckpoint
\* that follows a fulfilled deleteCheckpoint on the tier, changes nothing, and
\* the slot holds that checkpoint, or is Absent.
C17_RepeatedCallChangesNothing ==
    [][\A c \in DOMAIN calls : \A p \in PreviousOn(c) : \A r \in RequestsOf(c) :
           /\ Serialized(calls[c].isLocal)
           /\ calls[p].op = calls[c].op
           /\ calls[p].checkpoint = calls[c].checkpoint
           /\ calls[p].result = "fulfilled"
           /\ TakesEffect(r)
           => /\ collection' = collection
              /\ collection'[CallSlot(c)] = calls[c].checkpoint]_vars

\* C17 witness: two writeCheckpoint calls of the same checkpoint on the local
\* tier, the second issued after the first completed, both fulfilled, and the
\* slot holds the checkpoint.
C17_Witness ==
    /\ Len(calls) = 2
    /\ calls[1].op = "writeCheckpoint" /\ calls[2].op = "writeCheckpoint"
    /\ calls[1].isLocal /\ calls[2].isLocal /\ calls[2].awaited
    /\ calls[1].checkpoint = calls[2].checkpoint
    /\ calls[1].result = "fulfilled" /\ calls[2].result = "fulfilled"
    /\ collection[CallSlot(2)] = calls[2].checkpoint

\* The store carried out the service call of writeCheckpoint call c.
Written(c) ==
    /\ calls[c].op = "writeCheckpoint"
    /\ \E r \in RequestsOf(c) : requests[r].state = "fulfilled"

\* The slot of call c holds no checkpoint with a sequence number below c's.
NotBelow(c) ==
    collection[CallSlot(c)] # Absent =>
        collection[CallSlot(c)].sequenceNumber >= calls[c].checkpoint.sequenceNumber

\* The writeCheckpoint calls on a tier carry sequence numbers that never go
\* down in the order issued.
Ordered(isLocal) ==
    \A c1, c2 \in CallsOn(isLocal) :
        calls[c1].op = "writeCheckpoint" /\ calls[c2].op = "writeCheckpoint" /\ c1 < c2 =>
            calls[c1].checkpoint.sequenceNumber <= calls[c2].checkpoint.sequenceNumber

\* C18 (as stated): once the store carried out a writeCheckpoint with sequence
\* number s, the slot never holds a checkpoint with a sequence number below s,
\* whatever calls the manager is given.
C18_OlderNeverOverwritesNewer ==
    \A c \in DOMAIN calls : Written(c) => NotBelow(c)

\* C18 (amended): when the caller issues the calls of a tier one after the
\* completion of the other and its writeCheckpoint calls in non-decreasing
\* order of sequence number, then once the store carried out a writeCheckpoint
\* with sequence number s the slot never holds a checkpoint with a sequence
\* number below s.
C18_OrderedSerialWritesKeepNewest ==
    \A c \in DOMAIN calls :
        Serialized(calls[c].isLocal) /\ Ordered(calls[c].isLocal) /\ Written(c) => NotBelow(c)

\* C18 witness: two writeCheckpoint calls on the global tier, sequence number
\* 1 then 2, the second issued after the first completed, both carried out:
\* the slot holds sequence number 2.
C18_Witness ==
    /\ Len(calls) = 2
    /\ Written(1) /\ Written(2)
    /\ ~calls[1].isLocal /\ ~calls[2].isLocal /\ calls[2].awaited
    /\ calls[1].checkpoint.sequenceNumber = 1
    /\ calls[2].checkpoint.sequenceNumber = 2
    /\ collection[CallSlot(2)].sequenceNumber = 2

Max(S) == CHOOSE x \in S : \A y \in S : x >= y

\* Every call on the tier has completed.
Completed(isLocal) == \A c \in CallsOn(isLocal) : calls[c].result # "pending"

\* The calls on the tier that completed fulfilled.
FulfilledOn(isLocal) == {c \in CallsOn(isLocal) : calls[c].result = "fulfilled"}

\* C19 (as stated): when the calls of a tier were issued one after the
\* completion of the other and have all completed, the slot is as the last
\* call issued says: holding its checkpoint for a writeCheckpoint, Absent for
\* a deleteCheckpoint.
C19_LastIssuedCallDecides ==
    \A isLocal \in BOOLEAN :
        CallsOn(isLocal) # {} /\ Serialized(isLocal) /\ Completed(isLocal) =>
            collection[TierSlot(isLocal)] = calls[Max(CallsOn(isLocal))].checkpoint

\* C19 (amended): when the calls of a tier were issued one after the
\* completion of the other and have all completed, the slot is as the last
\* call that completed fulfilled says: holding its checkpoint for a
\* writeCheckpoint, Absent for a deleteCheckpoint, and Absent when no call
\* was fulfilled.
C19_LastFulfilledCallDecides ==
    \A isLocal \in BOOLEAN :
        Serialized(isLocal) /\ Completed(isLocal) =>
            collection[TierSlot(isLocal)] =
                IF FulfilledOn(isLocal) = {}
                THEN Absent
                ELSE calls[Max(FulfilledOn(isLocal))].checkpoint

\* C19 witness: on the global tier a writeCheckpoint was fulfilled, then a
\* deleteCheckpoint issued after it was rejected: the slot holds the
\* checkpoint written.
C19_Witness ==
    /\ Len(calls) = 2
    /\ ~calls[1].isLocal /\ ~calls[2].isLocal /\ calls[2].awaited
    /\ calls[1].op = "writeCheckpoint" /\ calls[1].result = "fulfilled"
    /\ calls[2].op = "deleteCheckpoint" /\ calls[2].result = "rejected"
    /\ collection[TierSlot(FALSE)] = calls[1].checkpoint

\* C20: every service call carries the isLocal of the call of the manager
\* that made it; the step in which the store completes a service call changes
\* no slot of the other tier; and two pending service calls of different
\* tiers leave the same store in either order.
C20_TiersAreIndependent ==
    [][/\ \A r \in DOMAIN requests' : requests'[r].isLocal = calls'[requests'[r].call].isLocal
       /\ \A r \in DOMAIN requests :
              requests[r].state = "pending" /\ requests'[r].state # "pending" =>
                  \A slot \in Slots :
                      slot.isLocal # calls[requests[r].call].isLocal =>
                          collection'[slot] = collection[slot]
       /\ \A r1, r2 \in DOMAIN requests :
              /\ requests[r1].state = "pending" /\ requests[r2].state = "pending"
              /\ calls[requests[r1].call].isLocal # calls[requests[r2].call].isLocal
              => Effect(Effect(collection, requests[r1]), requests[r2]) =
                     Effect(Effect(collection, requests[r2]), requests[r1])]_vars

\* C20 witness: a writeCheckpoint on the global tier and a deleteCheckpoint on
\* the local tier were both fulfilled, and the global slot holds the
\* checkpoint while the local slot is Absent.
C20_Witness ==
    /\ Len(calls) = 2
    /\ calls[1].op = "writeCheckpoint" /\ ~calls[1].isLocal
    /\ calls[2].op = "deleteCheckpoint" /\ calls[2].isLocal
    /\ calls[1].result = "fulfilled" /\ calls[2].result = "fulfilled"
    /\ collection[TierSlot(FALSE)] = calls[1].checkpoint
    /\ collection[TierSlot(TRUE)] = Absent

\* The documents' slots other than those of manager m.
SlotsOfOthers(m) ==
    {slot \in Slots : slot.documentId # m.documentId \/ slot.tenantId # m.tenantId}

\* C21: every service call is keyed by the documentId and the tenantId of the
\* manager that made it and by the service name "deli", and the step in which
\* the store completes a service call changes no slot of another document or
\* tenant.
C21_ManagerKeepsToItsDocument ==
    [][/\ \A r \in DOMAIN requests' :
              /\ requests'[r].documentId = calls'[requests'[r].call].manager.documentId
              /\ requests'[r].tenantId = calls'[requests'[r].call].manager.tenantId
              /\ requests'[r].service = "deli"
       /\ \A r \in DOMAIN requests :
              requests[r].state = "pending" /\ requests'[r].state # "pending" =>
                  \A slot \in SlotsOfOthers(calls[requests[r].call].manager) :
                      collection'[slot] = collection[slot]]_vars

\* C21 witness: the manager of d2 wrote its checkpoint, then the manager of
\* d1 of the same tenant had a deleteCheckpoint on the same tier fulfilled, and
\* the slot of d2 holds the checkpoint.
C21_Witness ==
    /\ Len(calls) = 2
    /\ calls[1].manager.documentId = "d2" /\ calls[2].manager.documentId = "d1"
    /\ calls[1].manager.tenantId = calls[2].manager.tenantId
    /\ calls[1].isLocal = calls[2].isLocal
    /\ calls[1].op = "writeCheckpoint" /\ calls[2].op = "deleteCheckpoint"
    /\ calls[1].result = "fulfilled" /\ calls[2].result = "fulfilled"
    /\ collection[[documentId |-> "d2", tenantId |-> calls[1].manager.tenantId, service |-> "deli", isLocal |-> calls[1].isLocal]] = calls[1].checkpoint

\* C22: for every writeCheckpoint call issued, whatever reason it was given,
\* the service call it makes carries the checkpoint, the tier and that reason.
C22_ReasonReachesRepository ==
    \A c \in DOMAIN calls :
        calls[c].op = "writeCheckpoint" =>
            \A reason \in CheckpointReasons :
                LET made == writeCheckpoint(calls[c].manager, calls[c].checkpoint, calls[c].isLocal, reason)
                IN  /\ made.requests # <<>>
                    /\ \A i \in DOMAIN made.requests :
                           /\ made.requests[i].checkpoint = calls[c].checkpoint
                           /\ made.requests[i].isLocal = calls[c].isLocal
                           /\ "reason" \in DOMAIN made.requests[i]
                           /\ made.requests[i].reason = reason

\* The store after the service calls `made` lists were carried out in order.
RECURSIVE Carried(_, _)
Carried(coll, reqs) ==
    IF reqs = <<>> THEN coll ELSE Carried(Effect(coll, Head(reqs)), Tail(reqs))

\* C23: a deleteCheckpoint whose params have clear = true leaves a Present
\* slot Absent once carried out, and one whose params have clear false or
\* unset leaves the slot holding the checkpoint it held.
C23_ClearDecidesDeletion ==
    \A isLocal \in BOOLEAN, checkpointParams \in CheckpointParams :
        collection[TierSlot(isLocal)] # Absent =>
            LET after == Carried(collection, deleteCheckpoint(Manager, checkpointParams, isLocal).requests)
            IN  IF checkpointParams.clear = "true"
                THEN after[TierSlot(isLocal)] = Absent
                ELSE after[TierSlot(isLocal)] = collection[TierSlot(isLocal)]

\* C24: the promise a call of the manager returned has settled only if the
\* call's one service call has completed, the same way; a fulfilled
\* writeCheckpoint has had its write carried out by the store.
C24_ResultAfterRepository ==
    \A c \in DOMAIN calls :
        calls[c].result # "pending" =>
            /\ Cardinality(RequestsOf(c)) = 1
            /\ \A r \in RequestsOf(c) :
                   /\ requests[r].state = calls[c].result
                   /\ requests[r].op = IF calls[c].op = "writeCheckpoint"
                                       THEN "writeCheckpointToCollection"
                                       ELSE "removeCheckpointFromCollection"

\* C24 witness: the store has carried out the write of a writeCheckpoint whose
\* promise is still pending, while an earlier deleteCheckpoint has its promise
\* fulfilled and its removal carried out.
C24_Witness ==
    /\ Len(calls) = 2
    /\ calls[1].op = "deleteCheckpoint" /\ calls[1].result = "fulfilled"
    /\ calls[2].op = "writeCheckpoint" /\ calls[2].result = "pending"
    /\ \A r \in RequestsOf(2) : requests[r].state = "fulfilled"
    /\ collection[CallSlot(2)] = calls[2].checkpoint

\* ------------------------------------------------------------- registry claims
\* The debuggers the registry holds for containerId.
HeldFor(g, containerId) ==
    {d \in getFluidClientDebuggers(g).ret : g.debuggers[d].containerId = containerId}

\* What getFluidClientDebugger answers for every containerId.
Answers(g) ==
    [containerId \in ContainerIds |-> getFluidClientDebugger(g, containerId).ret]

\* C25: initializing or setting a debugger for a containerId that has a
\* registered debugger calls dispose() on the existing one, leaves it disposed
\* and registers the new one in its place; in every state the registry holds
\* at most one debugger per containerId, and getFluidClientDebugger(id)
\* returns the debugger registered last for id and not closed or cleared
\* since.
C25_RegistrationReplaces ==
    /\ \A containerId \in ContainerIds :
        /\ Cardinality(HeldFor(Global, containerId)) <= 1
        /\ getFluidClientDebugger(Global, containerId).ret = registered[containerId]
    /\ \A containerId \in ContainerIds :
        LET existing == getFluidClientDebugger(Global, containerId).ret
            g == initializeFluidClientDebugger(Global, containerId, NewDebugger)
        IN  existing # NoDebugger =>
                /\ g.disposeCalls = {existing}
                /\ g.debuggers[existing].disposed
                /\ getFluidClientDebugger(g, containerId).ret = NewDebugger
                /\ HeldFor(g, containerId) = {NewDebugger}
    /\ \A clientDebugger \in DOMAIN debuggers :
        LET containerId == debuggers[clientDebugger].containerId
            existing == getFluidClientDebugger(Global, containerId).ret
            g == setFluidClientDebugger(Global, clientDebugger)
        IN  existing # NoDebugger =>
                /\ g.disposeCalls = {existing}
                /\ g.debuggers[existing].disposed
                /\ getFluidClientDebugger(g, containerId).ret = clientDebugger
                /\ HeldFor(g, containerId) = {clientDebugger}

\* A registration has replaced a debugger: the replaced one was disposed by
\* the call and another debugger answers for its containerId.
C25_Witness ==
    \E existing \in disposeCalls :
        LET containerId == debuggers[existing].containerId
        IN  /\ debuggers[existing].disposed
            /\ registered[containerId] \notin {NoDebugger, existing}
            /\ getFluidClientDebugger(Global, containerId).ret = registered[containerId]

\* C26: closeFluidClientDebugger(id) calls dispose() on the debugger
\* registered for id and removes it, so that getFluidClientDebugger(id) is
\* undefined afterwards and the other containerIds keep their debuggers; with
\* no debugger registered for id it calls dispose() on nothing, completes, and
\* leaves every debugger and every answer of the registry as they were.
C26_CloseDisposesAndRemoves ==
    \A containerId \in ContainerIds :
        LET existing == getFluidClientDebugger(Global, containerId).ret
            g == closeFluidClientDebugger(Global, containerId)
        IN  IF existing # NoDebugger
            THEN /\ g.disposeCalls = {existing}
                 /\ g.debuggers[existing].disposed
                 /\ Answers(g) = [Answers(Global) EXCEPT ![containerId] = NoDebugger]
                 /\ getFluidClientDebuggers(g).ret = getFluidClientDebuggers(Global).ret \ {existing}
            ELSE /\ g.disposeCalls = {}
                 /\ g.debuggers = debuggers
                 /\ Answers(g) = Answers(Global)
                 /\ getFluidClientDebuggers(g).ret = getFluidClientDebuggers(Global).ret

\* A close has acted: the debugger it disposed is gone from a registry that
\* is still bound, and nothing answers for its containerId.
C26_Witness ==
    /\ fluidClientDebuggers # Undefined
    /\ \E existing \in disposeCalls :
        /\ debuggers[existing].disposed
        /\ existing \notin getFluidClientDebuggers(Global).ret
        /\ getFluidClientDebugger(Global, debuggers[existing].containerId).ret = NoDebugger
        /\ getFluidClientDebuggers(Global).ret # {}

\* C27: clearDebuggerRegistry leaves every debugger that was registered
\* disposed, calls dispose() on exactly those of them that were not disposed,
\* leaves the other debuggers as they were, and resets the registry:
\* getFluidClientDebuggers() is empty afterwards and a later registration is
\* the only entry of the registry.
C27_ClearDisposesAndResets ==
    LET before == getFluidClientDebuggers(Global).ret
        g == clearDebuggerRegistry(Global)
    IN  /\ \A d \in before : g.debuggers[d].disposed
        /\ g.disposeCalls = {d \in before : ~debuggers[d].disposed}
        /\ \A d \in DOMAIN debuggers \ before : g.debuggers[d] = debuggers[d]
        /\ g.fluidClientDebuggers = Undefined
        /\ getFluidClientDebuggers(g).ret = {}
        /\ \A containerId \in ContainerIds :
            /\ getFluidClientDebugger(g, containerId).ret = NoDebugger
            /\ getFluidClientDebuggers(initializeFluidClientDebugger(g, containerId, NewDebugger)).ret = {NewDebugger}
        /\ \A clientDebugger \in DOMAIN debuggers :
            getFluidClientDebuggers(setFluidClientDebugger(g, clientDebugger)).ret = {clientDebugger}

\* The registry has been cleared: it is unbound and the two debuggers it
\* held were disposed by the call.
C27_Witness ==
    /\ fluidClientDebuggers = Undefined
    /\ Cardinality(disposeCalls) >= 2
    /\ \A d \in disposeCalls : debuggers[d].disposed
    /\ \A containerId \in ContainerIds : registered[containerId] = NoDebugger

\* ------------------------------------------------------------- repeated upserts
\* C28: in every reachable state, upsertClient of a tracked client with the
\* referenceSequenceNumber, clientSequenceNumber, timestamp and nack it holds
\* and no metadata leaves count(), getMinimumSequenceNumber(), the
\* referenceSequenceNumber of peek() and get(id) for every id as they were;
\* and upsertClient of a tracked client with the referenceSequenceNumber it
\* holds and any other fields leaves getMinimumSequenceNumber() and count()
\* as they were.
C28_SameValuesChangeNothing ==
    \A clientId \in Tracked :
        LET stored == get(Tracker, clientId)
        IN  /\ \A canEvict \in BOOLEAN :
                LET r == upsertClient(Tracker, clientId, stored.clientSequenceNumber,
                                      stored.referenceSequenceNumber, stored.lastUpdate, canEvict,
                                      Fresh(DOMAIN arrays, clientId), stored.nack, MetaUndefined)
                IN  /\ ~r.ret
                    /\ count(r.t) = count(Tracker)
                    /\ getMinimumSequenceNumber(r.t) = getMinimumSequenceNumber(Tracker)
                    /\ peek(r.t).referenceSequenceNumber = peek(Tracker).referenceSequenceNumber
                    /\ \A id \in ClientIds : get(r.t, id) = get(Tracker, id)
            /\ \A csn \in Csns, timestamp \in Timestamps, nack \in BOOLEAN, serverMetadata \in Metas :
                LET r == upsertClient(Tracker, clientId, csn, stored.referenceSequenceNumber,
                                      timestamp, TRUE, Fresh(DOMAIN arrays, clientId), nack,
                                      serverMetadata)
                IN  /\ getMinimumSequenceNumber(r.t) = getMinimumSequenceNumber(Tracker)
                    /\ count(r.t) = count(Tracker)

\* C28 witness: two tracked clients share the minimum, one of them holds a
\* metadata object, and upserting it again with the values it holds is
\* answered false and leaves what get() reports for it.
C28_Witness ==
    \E a, b \in Tracked :
        /\ a # b
        /\ get(Tracker, a).referenceSequenceNumber = getMinimumSequenceNumber(Tracker)
        /\ get(Tracker, b).referenceSequenceNumber = getMinimumSequenceNumber(Tracker)
        /\ get(Tracker, a).serverMetadata = "m1"
        /\ LET r == upsertClient(Tracker, a, get(Tracker, a).clientSequenceNumber,
                                 get(Tracker, a).referenceSequenceNumber, get(Tracker, a).lastUpdate,
                                 TRUE, Fresh(DOMAIN arrays, a), get(Tracker, a).nack, MetaUndefined)
           IN  /\ ~r.ret
               /\ get(r.t, a) = get(Tracker, a)

\* ------------------------------------------------------------- ties
\* Clients join one after the other and leave; no tracked client is updated.
\* The timestamp of each joining client is later than that of every tracked
\* one, so lastUpdate tells the order in which the tracked clients were
\* inserted.
MaxJoins == 3

FirstJoin == 100

JoinTimestamp ==
    IF Tracked = {}
    THEN FirstJoin
    ELSE 1 + Max({get(Tracker, clientId).lastUpdate : clientId \in Tracked})

DoJoin(clientId, referenceSequenceNumber) ==
    /\ clientId \notin Tracked
    /\ JoinTimestamp < FirstJoin + MaxJoins
    /\ DoUpsertClient(clientId, 1, referenceSequenceNumber, JoinTimestamp, TRUE, <<>>,
                      FALSE, MetaUndefined)

TiesNext ==
    \/ \E clientId \in ClientIds, referenceSequenceNumber \in Refs : DoJoin(clientId, referenceSequenceNumber)
    \/ \E clientId \in ClientIds : DoRemoveClient(clientId)

SpecTies == Init /\ [][TiesNext]_vars

\* The tracked clients that hold the minimum referenceSequenceNumber.
AtMinimum ==
    {clientId \in Tracked :
        get(Tracker, clientId).referenceSequenceNumber = getMinimumSequenceNumber(Tracker)}

\* C29: in every state reached by inserting and removing clients, peek() is
\* the client inserted first among the tracked clients that hold the minimum
\* referenceSequenceNumber.
C29_PeekIsFirstInserted ==
    Tracked # {} =>
        \A clientId \in AtMinimum :
            peek(Tracker).lastUpdate <= get(Tracker, clientId).lastUpdate

\* ------------------------------------------------------------- checkpoint payload
\* The payload a caller hands to writeCheckpoint: an object that refers to
\* the array cloneValues() returned and carries the minimum sequence number
\* as a number.
SnapshotArray == [array |-> "snapshot"]

Payload == [clients |-> SnapshotArray, minimumSequenceNumber |-> getMinimumSequenceNumber(Tracker)]

\* What a payload serializes to: its numbers, and the elements of the array
\* it refers to read through as they are in this state.
Serialize(payload) ==
    [clients |-> [i \in DOMAIN snapshot |-> ReadThrough(values[snapshot[i]])],
     minimumSequenceNumber |-> payload.minimumSequenceNumber]

\* The caller hands the payload to writeCheckpoint as soon as it has the
\* array; the call is recorded with what the payload serializes to at this
\* moment.
DoWritePayload(isLocal, reason) ==
    /\ held = "fresh"
    /\ calls = <<>>
    /\ Issue(Manager, "writeCheckpoint", isLocal, Serialize(Payload), writeCheckpoint(Manager, Payload, isLocal, reason))

\* The store carries out a pending write: it serializes the payload it was
\* given into the slot.
RepositoryStoresPayload(r) ==
    /\ requests[r].state = "pending"
    /\ collection' = Effect(collection, [requests[r] EXCEPT !.checkpoint = Serialize(@)])
    /\ requests' = [requests EXCEPT ![r].state = "fulfilled"]
    /\ UNCHANGED calls
    /\ UNCHANGED <<trackerVars, registryVars>>

\* A write of the payload is pending.
WritePending == \E r \in DOMAIN requests : requests[r].state = "pending"

\* cloneValues with the map iterated by ascending clientId.
Ascending(S) == {order \in Orders(S) : \A i, j \in DOMAIN order : i < j => order[i] < order[j]}

PayloadClients == 2
PayloadIds == 1..PayloadClients

\* The tracker takes upsertClient and removeClient before the caller calls
\* cloneValues and again while the write of the payload is pending.
PayloadNext ==
    \/ \E clientId \in PayloadIds, referenceSequenceNumber \in FieldRefs :
           /\ held = "none" \/ WritePending
           /\ DoUpsertClient(clientId, 1, referenceSequenceNumber, 100, TRUE,
                             <<"doc:read">>, FALSE, MetaUndefined)
    \/ \E clientId \in PayloadIds : (held = "none" \/ WritePending) /\ DoRemoveClient(clientId)
    \/ \E order \in Ascending(DOMAIN clientNodeMap) : DoCloneValues(order)
    \/ \E isLocal \in BOOLEAN, reason \in CheckpointReasons : DoWritePayload(isLocal, reason)
    \/ \E r \in DOMAIN requests : RepositoryStoresPayload(r)

SpecPayload == Init /\ [][PayloadNext]_vars

\* C30: whatever upsertClient and removeClient calls the tracker takes after
\* the payload was handed to writeCheckpoint, the payload of every write
\* serializes to what it serialized to when it was handed over (the roster,
\* each client's fields with its referenceSequenceNumber, the minimum
\* sequence number), and what a slot holds is what the payload of a write to
\* that slot was when it was handed over.
C30_PayloadFixedAtHandOff ==
    /\ \A r \in DOMAIN requests :
        Serialize(requests[r].checkpoint) = calls[requests[r].call].checkpoint
    /\ \A slot \in Slots :
        collection[slot] # Absent =>
            \E r \in DOMAIN requests :
                /\ requests[r].state = "fulfilled"
                /\ SlotOf(requests[r]) = slot
                /\ collection[slot] = calls[requests[r].call].checkpoint

\* C30 witness: a slot holds the payload of a write with two clients in its
\* roster, and the tracker has moved on while the write was pending: a
\* client of the roster has left, the other holds another
\* referenceSequenceNumber, and the minimum is another one.
C30_Witness ==
    \E slot \in Slots :
        /\ collection[slot] # Absent
        /\ Len(collection[slot].clients) = 2
        /\ \E i, j \in DOMAIN collection[slot].clients :
            /\ ~has(Tracker, collection[slot].clients[i].fields.clientId)
            /\ has(Tracker, collection[slot].clients[j].fields.clientId)
            /\ get(Tracker, collection[slot].clients[j].fields.clientId).referenceSequenceNumber
                   # collection[slot].clients[j].fields.referenceSequenceNumber
        /\ getMinimumSequenceNumber(Tracker) # collection[slot].minimumSequenceNumber

\* ------------------------------------------------------------- one service call per call
\* The service operation a call of the manager stands for.
ServiceOp(op) ==
    IF op = "writeCheckpoint" THEN "writeCheckpointToCollection" ELSE "removeCheckpointFromCollection"

\* C31: in every reachable state, every call of writeCheckpoint has made
\* exactly one service call, a writeCheckpointToCollection, and every call of
\* deleteCheckpoint exactly one, a removeCheckpointFromCollection, whether or
\* not earlier calls on the same slot were still pending when it was made;
\* the service has no call that no call of the manager made.
C31_OneServiceCallPerCall ==
    /\ \A c \in DOMAIN calls :
        /\ Cardinality(RequestsOf(c)) = 1
        /\ \A r \in RequestsOf(c) : requests[r].op = ServiceOp(calls[c].op)
    /\ Len(requests) = Len(calls)
    /\ \A r \in DOMAIN requests : requests[r].call \in DOMAIN calls

\* C31 witness: a write and a delete on the same slot, the second made while
\* the first was pending, both still pending, each with its own service call.
C31_Witness ==
    \E c, d \in DOMAIN calls :
        /\ c < d
        /\ calls[c].isLocal = calls[d].isLocal
        /\ calls[c].op = "writeCheckpoint"
        /\ calls[d].op = "deleteCheckpoint"
        /\ ~calls[d].awaited
        /\ \A r \in RequestsOf(c) \cup RequestsOf(d) : requests[r].state = "pending"
        /\ Cardinality(RequestsOf(c) \cup RequestsOf(d)) = 2

\* ------------------------------------------------------------- canEvict and scopes
\* C32: a call that leaves a tracked client tracked leaves its canEvict, its
\* scopes array and the content of that array as they were, whatever canEvict
\* and scopes the call carries; so they stay as the insertion set them for as
\* long as the client is tracked.
C32_CanEvictAndScopesKept ==
    [][\A clientId \in ClientIds :
          (has(Tracker, clientId) /\ has(Tracker, clientId)') =>
              /\ get(Tracker, clientId).canEvict' = get(Tracker, clientId).canEvict
              /\ get(Tracker, clientId).scopes' = get(Tracker, clientId).scopes
              /\ arrays[get(Tracker, clientId).scopes]' = arrays[get(Tracker, clientId).scopes]]_vars

\* C32 witness: a tracked client holds canEvict false and the scope
\* "doc:read", and an upsertClient of it with canEvict true and another
\* scopes array is answered false and leaves both.
C32_Witness ==
    \E clientId \in Tracked :
        LET r == upsertClient(Tracker, clientId, 1, 0, 100, TRUE,
                              Fresh(DOMAIN arrays, clientId), FALSE, MetaUndefined)
        IN  /\ ~get(Tracker, clientId).canEvict
            /\ arrays[get(Tracker, clientId).scopes] = <<"doc:read">>
            /\ ~r.ret
            /\ ~get(r.t, clientId).canEvict
            /\ get(r.t, clientId).scopes = get(Tracker, clientId).scopes

\* ------------------------------------------------------------- other clients
\* The position in the heap array of the node of a client tracked by t.
PositionIn(t, clientId) == t.nodes[MapGet(t.clientNodeMap, clientId)].position

\* C33: in every reachable state, upsertClient(id, ...) with any values and
\* removeClient(id) leave every other tracked client tracked and what get()
\* returns for it, every field, as it was; count() changes by the client of
\* the call alone.
C33_OtherClientsUntouched ==
    \A clientId \in ClientIds :
        /\ \A referenceSequenceNumber \in Refs :
            LET r == upsertClient(Tracker, clientId, 2, referenceSequenceNumber, 101, FALSE,
                                  Fresh(DOMAIN arrays, clientId), TRUE, "m1")
            IN  \A other \in Tracked \ {clientId} :
                    /\ has(r.t, other)
                    /\ get(r.t, other) = get(Tracker, other)
        /\ LET r == removeClient(Tracker, clientId)
           IN  \A other \in Tracked \ {clientId} :
                   /\ has(r.t, other)
                   /\ get(r.t, other) = get(Tracker, other)

\* C33 witness: the client at the root of a full heap is given a higher
\* referenceSequenceNumber, or removed, and another client, whose node moves
\* to the root, is returned by get() as before.
C33_Witness ==
    \E a, b \in Tracked :
        LET up == upsertClient(Tracker, a, 2, MaxRef, 101, FALSE, Fresh(DOMAIN arrays, a), TRUE, "m1")
            rm == removeClient(Tracker, a)
        IN  /\ a # b
            /\ count(Tracker) = NumClients
            /\ PositionIn(Tracker, a) = 1
            /\ PositionIn(Tracker, b) # 1
            /\ PositionIn(up.t, b) = 1
            /\ PositionIn(rm.t, b) = 1
            /\ get(up.t, b) = get(Tracker, b)
            /\ get(rm.t, b) = get(Tracker, b)

\* ------------------------------------------------------------- lookup by key
\* C34: in every reachable state and for every clientId, has(id) is true
\* exactly when get(id) is not undefined, exactly when id was upserted and
\* not removed since; get(id) of a tracked id carries that clientId; for an
\* untracked id has() answers false and get() undefined.
C34_LookupIsConsistent ==
    \A clientId \in ClientIds :
        /\ has(Tracker, clientId) \in BOOLEAN
        /\ has(Tracker, clientId) <=> get(Tracker, clientId) # Undefined
        /\ has(Tracker, clientId) <=> clientId \in upserted
        /\ has(Tracker, clientId) => get(Tracker, clientId).clientId = clientId
        /\ clientId \notin upserted => ~has(Tracker, clientId) /\ get(Tracker, clientId) = Undefined

\* C34 witness: a tracked client that is not at the root of the heap is
\* returned by get() with its clientId, next to an untracked clientId for
\* which has() is false and get() undefined.
C34_Witness ==
    \E a, b \in ClientIds :
        /\ a \in upserted
        /\ b \notin upserted
        /\ has(Tracker, a)
        /\ get(Tracker, a).clientId = a
        /\ peek(Tracker).clientId # a
        /\ ~has(Tracker, b)
        /\ get(Tracker, b) = Undefined

\* ------------------------------------------------------------- removal and the minimum
\* The referenceSequenceNumbers of the clients t tracks other than clientId.
RefsWithout(t, clientId) ==
    {get(t, other).referenceSequenceNumber : other \in {x \in ClientIds : has(t, x)} \ {clientId}}

\* C35: in every reachable state, removeClient of a tracked clientId that
\* leaves a client tracked leaves getMinimumSequenceNumber() at least what it
\* was, namely the least referenceSequenceNumber of the clients that remain;
\* it makes it -1 from another value only when it removes the last client;
\* removeClient of an untracked clientId leaves it as it was.
C35_RemovalNeverLowersMinimum ==
    \A clientId \in ClientIds :
        LET before == getMinimumSequenceNumber(Tracker)
            r == removeClient(Tracker, clientId)
            after == getMinimumSequenceNumber(r.t)
        IN  /\ count(r.t) > 0 => after >= before
            /\ (count(r.t) > 0 /\ has(Tracker, clientId)) => after = Min(RefsWithout(Tracker, clientId))
            /\ (after = NoClients /\ before # NoClients) => (count(r.t) = 0 /\ has(Tracker, clientId))
            /\ ~has(Tracker, clientId) => after = before

\* C35 witness: the one client at the minimum and a client above it are
\* tracked in a full heap; removing the first raises the minimum, removing
\* the second leaves it.
C35_Witness ==
    \E a, b \in Tracked :
        /\ count(Tracker) = NumClients
        /\ get(Tracker, a).referenceSequenceNumber = 0
        /\ \A other \in Tracked \ {a} : get(Tracker, other).referenceSequenceNumber = MaxRef
        /\ b # a
        /\ getMinimumSequenceNumber(Tracker) = 0
        /\ getMinimumSequenceNumber(removeClient(Tracker, a).t) = MaxRef
        /\ getMinimumSequenceNumber(removeClient(Tracker, b).t) = 0

\* ------------------------------------------------------------- the value -1
\* C36: in every reachable state, getMinimumSequenceNumber() of an empty
\* tracker is -1; of a tracker whose clients all hold a non-negative
\* referenceSequenceNumber it is -1 exactly when count() is 0; and a
\* non-empty tracker reports -1 only when a tracked client holds -1.
C36_MinusOneMeansEmpty ==
    LET numbers == {get(Tracker, clientId).referenceSequenceNumber : clientId \in Tracked}
    IN  /\ count(Tracker) = 0 => getMinimumSequenceNumber(Tracker) = NoClients
        /\ (\A n \in numbers : n >= 0) =>
               (getMinimumSequenceNumber(Tracker) = NoClients <=> count(Tracker) = 0)
        /\ (count(Tracker) > 0 /\ getMinimumSequenceNumber(Tracker) = NoClients) =>
               NoClients \in numbers

\* C36 witness: one client is tracked, with referenceSequenceNumber 0, and
\* getMinimumSequenceNumber() is 0; upserting a second client with -1 makes
\* a non-empty tracker report -1.
C36_Witness ==
    \E a \in Tracked, b \in ClientIds \ Tracked :
        /\ count(Tracker) = 1
        /\ get(Tracker, a).referenceSequenceNumber = 0
        /\ getMinimumSequenceNumber(Tracker) = 0
        /\ getMinimumSequenceNumber(CoreUpsert(Tracker, b, NoClients).t) = NoClients
        /\ count(CoreUpsert(Tracker, b, NoClients).t) = 2

\* ------------------------------------------------------------- joining again
\* C37: in every reachable state and for every tracked client, removeClient
\* followed by upsertClient of the same clientId returns true, and get() then
\* returns exactly the values of that call: its referenceSequenceNumber,
\* clientSequenceNumber, timestamp, canEvict, scopes, nack and serverMetadata
\* (undefined or empty included), whatever the removed state held.
C37_RejoinIsFirstSeen ==
    \A clientId \in Tracked, csn \in Csns, canEvict \in BOOLEAN, nack \in BOOLEAN,
       serverMetadata \in {MetaUndefined, MetaEmpty, "m2"} :
        LET removed == removeClient(Tracker, clientId)
            ref == csn - 1
            timestamp == 99 + csn
            scopes == Fresh(DOMAIN arrays, clientId)
            r == upsertClient(removed.t, clientId, csn, ref, timestamp, canEvict, scopes, nack,
                              serverMetadata)
        IN  /\ removed.ret
            /\ r.ret
            /\ count(r.t) = count(Tracker)
            /\ get(r.t, clientId) =
                   [canEvict |-> canEvict,
                    clientId |-> clientId,
                    clientSequenceNumber |-> csn,
                    lastUpdate |-> timestamp,
                    nack |-> nack,
                    referenceSequenceNumber |-> ref,
                    scopes |-> scopes,
                    serverMetadata |-> serverMetadata]

\* C37 witness: a tracked client holds canEvict false, nack true and a
\* metadata object; removed and upserted again with canEvict true, nack
\* false and no metadata, it holds those.
C37_Witness ==
    \E clientId \in Tracked :
        LET r == upsertClient(removeClient(Tracker, clientId).t, clientId, 1, 0, 100, TRUE,
                              Fresh(DOMAIN arrays, clientId), FALSE, MetaUndefined)
        IN  /\ ~get(Tracker, clientId).canEvict
            /\ get(Tracker, clientId).nack
            /\ get(Tracker, clientId).serverMetadata = "m1"
            /\ count(Tracker) = FieldClients
            /\ r.ret
            /\ get(r.t, clientId).canEvict
            /\ ~get(r.t, clientId).nack
            /\ get(r.t, clientId).serverMetadata = MetaUndefined

\* ------------------------------------------------------------- no eviction
\* C38: in every reachable state, removeClient removes a tracked client
\* whether its canEvict is true or false; and a tracked client stays tracked
\* through every other call: upsertClient of any clientId with any values and
\* timestamp, removeClient of another clientId, cloneValues; the tracked
\* clients are those upserted and not removed since.
C38_NoEvictionByTheTracker ==
    /\ Tracked = upserted
    /\ \A clientId \in Tracked :
        /\ removeClient(Tracker, clientId).ret
        /\ ~has(removeClient(Tracker, clientId).t, clientId)
        /\ \A other \in ClientIds, csn \in Csns, ref \in FieldRefs, timestamp \in Timestamps \cup {1000},
              canEvict \in BOOLEAN :
               has(upsertClient(Tracker, other, csn, ref, timestamp, canEvict,
                                Fresh(DOMAIN arrays, other), FALSE, MetaUndefined).t, clientId)
        /\ \A other \in ClientIds \ {clientId} : has(removeClient(Tracker, other).t, clientId)
        /\ \A order \in Orders(DOMAIN clientNodeMap) : has(cloneValues(Tracker, order).t, clientId)

\* C38 witness: a client with canEvict false and the older lastUpdate is
\* tracked next to one with canEvict true; removeClient removes either, and
\* an upsertClient of the second at a much later time leaves the first
\* tracked.
C38_Witness ==
    \E a, b \in Tracked :
        /\ ~get(Tracker, a).canEvict
        /\ get(Tracker, b).canEvict
        /\ get(Tracker, a).lastUpdate < get(Tracker, b).lastUpdate
        /\ ~has(removeClient(Tracker, a).t, a)
        /\ ~has(removeClient(Tracker, b).t, b)
        /\ has(upsertClient(Tracker, b, 2, 1, 1000, TRUE, Fresh(DOMAIN arrays, b), FALSE,
                            MetaUndefined).t, a)
====
